---------------------------- MODULE Spec2Model ----------------------------
(***************************************************************************)
(* Conversational agent with tool calling and an autonomous goal mode.     *)
(*                                                                         *)
(* Two goal loops exist in the repository and both are modelled:           *)
(*   - Chatbot.run_goal (chatbot.py), which runs on the chatbot's own      *)
(*     conversation_history and restores it in a finally block;            *)
(*   - GoalExecutor.execute_goal (goal_executor.py), which runs every      *)
(*     action on a temporary Session.                                      *)
(*                                                                         *)
(* Texts are sequences of one-character strings wherever the code looks    *)
(* inside them (the completion check); fixed literals of the code that are *)
(* only concatenated are kept as one element.  Python's None is the        *)
(* one-element sequence None, which no text equals.                        *)
(***************************************************************************)
EXTENDS Integers, Sequences, FiniteSets, TLC

VARIABLES
    session_id,            \* Chatbot.session_id (a uuid4)
    conversation_history,  \* Chatbot.conversation_history: the interactive log
    temp_history,          \* temp_session.conversation_history of GoalExecutor._execute_action
    request,               \* the gateway request in flight (NoRequest when none)
    med,                   \* the tool-call pass in progress: position and locals
    run,                   \* locals of run_goal / execute_goal
    send_reply,            \* what the last interactive send_message gave its caller
    goal_state,            \* position of the goal loop
    goal_result,           \* what the last run_goal / execute_goal gave its caller
    file_tools,            \* the FileTools object: its current_dir
    disk,                  \* the file system: directories, files and their contents
    obs,                   \* observation: history at invocation, step counters
    session,               \* the Session object a caller of session.py holds
    heap,                  \* the lists and message dicts that object and its caller reach
    caller,                \* what that caller, or the command loop, was last given
    last,                  \* observation of the last session operation
    other,                 \* a second task's send_message on the same Chatbot
    cli                    \* CLI.run: the line last read and what it printed for it

\* the state of the command loop's Chatbot and of the goal loops
chatbot_vars == <<session_id, conversation_history, temp_history, request, med, run,
                  send_reply, goal_state, goal_result, file_tools, disk, obs>>

\* the state of a Session object and of its caller
session_vars == <<session, heap, caller, last>>

vars == <<chatbot_vars, session_vars, other, cli>>

-----------------------------------------------------------------------------
(* Bounds of the model *)

\* ceiling of the goal loop explored by the model (chatbot.py fixes 20,
\* config.py reads MAX_GOAL_ACTIONS with default 20; the loops are the same
\* for every ceiling and the model runs them with small ones)
MaxActions == 2
\* an interactive send starts only while the log is shorter than this
MaxHistory == 1
\* most tool-call requests in one assistant turn
MaxToolCalls == 2
\* most message dicts alive at once on the heap of a Session's caller
MaxObjects == 2

-----------------------------------------------------------------------------
(* Texts *)

None == <<"None">>

lower_letters == <<"a","b","c","d","e","f","g","h","i","j","k","l","m",
                   "n","o","p","q","r","s","t","u","v","w","x","y","z">>
upper_letters == <<"A","B","C","D","E","F","G","H","I","J","K","L","M",
                   "N","O","P","Q","R","S","T","U","V","W","X","Y","Z">>

\* str.upper() on one character
char_upper(c) ==
    IF \E i \in 1..Len(lower_letters) : lower_letters[i] = c
    THEN upper_letters[CHOOSE i \in 1..Len(lower_letters) : lower_letters[i] = c]
    ELSE c

\* str.upper()
upper(s) == [i \in 1..Len(s) |-> char_upper(s[i])]

\* Python's `sub in s` on strings
contains(sub, s) ==
    \E i \in 1..(Len(s) - Len(sub) + 1) : SubSeq(s, i, i + Len(sub) - 1) = sub

\* str(x) as an f-string renders it
str(x) == IF x = None THEN <<"N","o","n","e">> ELSE x

GOAL_COMPLETE == <<"G","O","A","L","_","C","O","M","P","L","E","T","E">>
FINISHED == <<"F","I","N","I","S","H","E","D">>


-----------------------------------------------------------------------------
(* What the environment can hand to the program *)

\* user input of an interactive send
UserTexts == {<<"h","i">>}
\* goal texts given to run_goal
GoalTexts == {<<"g">>}
\* session ids uuid4 can give
SessionIds == {"uuid-1", "uuid-2"}
\* message.content of a model reply outside DECIDING
ReplyContents == {<<"o","k">>, None}
\* message.content of a PLANNING reply
PlanReplies == {<<"p">>, None}
\* message.content of a DECIDING reply: the signal in capitals, in mixed
\* case, inside another word; an action text that holds all but the end of
\* the signal; no content
DecideReplies ==
    { <<"G","O","A","L","_","C","O","M","P","L","E","T","E",":"," ","o","k">>,
      <<"G","o","a","l","_","c","o","m","p","l","e","t","e">>,
      <<"u","n","f","i","n","i","s","h","e","d">>,
      <<"f","i","n","i","s","h"," ","i","t">>,
      None }

\* tool-call requests a reply can carry (tool_call.id, .function.name,
\* .function.arguments).  An arguments text is a sequence of tokens: braces,
\* keys, colons, commas, and the characters of each value.  The second
\* request's arguments are cut off and are not JSON.
ToolCallPool ==
    { [id |-> "call_1", name |-> "read_file",
       arguments |-> <<"{", "file_path", ":", "a", "}">>],
      [id |-> "call_2", name |-> "write_file",
       arguments |-> <<"{", "file_path", ":">>] }

\* message.tool_calls of a reply: no requests (None in the API object), or
\* up to MaxToolCalls requests with distinct ids
ToolCallLists ==
    { tcs \in UNION { [1..n -> ToolCallPool] : n \in 0..MaxToolCalls } :
        \A i, j \in 1..Len(tcs) : i # j => tcs[i].id # tcs[j].id }

\* first replies of a pass: a text or nothing without tool requests, or
\* tool requests without text (content is null when a turn only carries
\* tool requests)
CreateReplies ==
    {[content |-> c, tool_calls |-> <<>>] : c \in ReplyContents}
    \cup {[content |-> None, tool_calls |-> tcs] : tcs \in ToolCallLists \ {<<>>}}

\* ids of the requests of one reply, by position
CallIds == <<"call_1", "call_2", "call_3", "call_4">>

\* function names and arguments texts of requests against the registry:
\* a read and a stat of a file, a listing, the current directory; a write
\* to /w2/x, next to the directory the program started in; a new directory;
\* moves into s and into /w2; an unknown function; arguments cut off
RegistryCalls ==
    { [name |-> "read_file", arguments |-> <<"{", "file_path", ":", "a", "}">>],
      [name |-> "get_file_info", arguments |-> <<"{", "file_path", ":", "a", "}">>],
      [name |-> "list_directory", arguments |-> <<"{", "}">>],
      [name |-> "get_current_directory", arguments |-> <<"{", "}">>],
      [name |-> "write_file",
       arguments |-> <<"{", "file_path", ":", "/", "w", "2", "/", "x", ",",
                       "content", ":", "c", "}">>],
      [name |-> "create_directory", arguments |-> <<"{", "directory_path", ":", "n", "}">>],
      [name |-> "change_directory", arguments |-> <<"{", "directory_path", ":", "s", "}">>],
      [name |-> "change_directory",
       arguments |-> <<"{", "directory_path", ":", "/", "w", "2", "}">>],
      [name |-> "delete_file", arguments |-> <<"{", "file_path", ":", "a", "}">>],
      [name |-> "delete_file", arguments |-> <<"{", "file_path", ":">>] }

\* message.tool_calls of a reply that asks for registry operations
RegistryCallLists ==
    { [i \in 1..Len(f) |-> [id |-> CallIds[i], name |-> f[i].name,
                            arguments |-> f[i].arguments]] :
        f \in UNION { [1..n -> RegistryCalls] : n \in 1..MaxToolCalls } }

\* exceptions: type is the Python class, msg is str(e)
ConnectionError == [type |-> "APIConnectionError", msg |-> <<"Connection error.">>]
AttributeError ==
    [type |-> "AttributeError", msg |-> <<"'NoneType' object has no attribute 'upper'">>]
JSONDecodeError ==
    [type |-> "JSONDecodeError", msg |-> <<"Expecting value: line 1 column 1 (char 0)">>]
KeyboardInterrupt == [type |-> "KeyboardInterrupt", msg |-> <<>>]

\* classes derived from Exception; KeyboardInterrupt derives from BaseException
ExceptionClasses ==
    {"Exception", "APIConnectionError", "AttributeError", "JSONDecodeError"}

\* what a failing gateway request raises
GatewayFailures == {ConnectionError}

-----------------------------------------------------------------------------
(* Tool layer (tools.py) *)

KnownFunctions ==
    {"read_file", "write_file", "list_directory", "get_current_directory",
     "change_directory", "create_directory", "get_file_info"}

\* json.loads succeeds on an object text
json_loads_ok(arguments) ==
    /\ Len(arguments) >= 2
    /\ arguments[1] = "{"
    /\ arguments[Len(arguments)] = "}"

\* json.dumps of a result dict
json_dumps(result) ==
    IF result.success
    THEN <<"{success: true, ">> \o result.payload \o <<"}">>
    ELSE <<"{error: ">> \o result.error \o <<"}">>

Success(payload) == [success |-> TRUE, payload |-> payload, error |-> <<>>]
Failure(error) == [success |-> FALSE, payload |-> <<>>, error |-> error]

\* arguments.get(key, default) on the parsed object: the value runs from the
\* token after the colon to the next comma or closing brace
json_get(arguments, key, default) ==
    LET at == {i \in 2..(Len(arguments) - 2) :
                   arguments[i] = key /\ arguments[i + 1] = ":"}
    IN  IF at = {} THEN default
        ELSE LET i == CHOOSE k \in at : \A m \in at : m <= k
                 stop == CHOOSE j \in (i + 2)..Len(arguments) :
                             /\ arguments[j] \in {",", "}"}
                             /\ \A m \in (i + 2)..(j - 1) : arguments[m] \notin {",", "}"}
             IN  SubSeq(arguments, i + 2, stop - 1)

\* ".." as a path component
ParentName == <<".", ".">>

\* os.getcwd(): the program never calls os.chdir, so this is also
\* Path.cwd() when FileTools is constructed
ProcessCwd == << <<"w">> >>

\* the file system when the program starts: /, /w, /w/s and /w2 are
\* directories, /w/a and /w/s/a are files
InitialDisk ==
    [dirs |-> { <<>>, << <<"w">> >>, << <<"w">>, <<"s">> >>, << <<"w", "2">> >> },
     files |-> { << << <<"w">>, <<"a">> >>, <<"x">> >>,
                 << << <<"w">>, <<"s">>, <<"a">> >>, <<"y">> >> }]

\* the members of a set of positions, in increasing order
in_order(positions) ==
    [k \in 1..Cardinality(positions) |->
        CHOOSE i \in positions : Cardinality({j \in positions : j < i}) = k - 1]

\* the components of a path text: cut at "/", without empty ones and "."
split ==
    [text \in Seq(STRING) |->
    LET cuts == {0, Len(text) + 1} \cup {i \in 1..Len(text) : text[i] = "/"}
        part(a) == SubSeq(text, a + 1,
                          (CHOOSE c \in cuts : c > a /\ \A e \in cuts : e > a => c <= e) - 1)
        starts == {a \in cuts : a <= Len(text) /\ part(a) \notin {<<>>, <<".">>}}
    IN  [k \in 1..Cardinality(starts) |-> part(in_order(starts)[k])]]

\* pathlib.Path(text)
Path(text) == [absolute |-> text # <<>> /\ text[1] = "/", parts |-> split[text]]

\* ".." components taken out with the component each one cancels; a ".."
\* with nothing before it is dropped
normalize ==
    [parts \in Seq(Seq(STRING)) |->
    LET up(i) == parts[i] = ParentName
        cancelled(i) ==
            \E j \in (i + 1)..Len(parts) :
                Cardinality({k \in (i + 1)..j : up(k)})
                    > Cardinality({k \in (i + 1)..j : ~up(k)})
        kept == {i \in 1..Len(parts) : ~up(i) /\ ~cancelled(i)}
    IN  [k \in 1..Cardinality(kept) |-> parts[in_order(kept)[k]]]]

\* Path.resolve(): absolute against the process's working directory
resolve(path) ==
    normalize[(IF path.absolute THEN <<>> ELSE ProcessCwd) \o path.parts]

\* the location the file system gives to `current_dir / path`
join(current_dir, path) ==
    normalize[IF path.absolute THEN path.parts ELSE current_dir \o path.parts]

RECURSIVE flat(_, _)
\* "/" and the name, for each component from the i-th on
flat(p, i) == IF i > Len(p) THEN <<>> ELSE <<"/">> \o p[i] \o flat(p, i + 1)

\* str() of an absolute path
path_str == [p \in Seq(Seq(STRING)) |-> IF p = <<>> THEN <<"/">> ELSE flat(p, 1)]

\* str.startswith
startswith(text, prefix) ==
    Len(prefix) <= Len(text) /\ SubSeq(text, 1, Len(prefix)) = prefix

\* FileTools._is_safe_path; Path(None) raises TypeError, which is caught
is_safe_path(self, file_path) ==
    IF file_path = None THEN FALSE
    ELSE startswith(path_str[resolve(Path(file_path))], path_str[self.current_dir])

is_dir(d, p) == p \in d.dirs
is_file(d, p) == \E f \in d.files : f[1] = p
exists(d, p) == is_dir(d, p) \/ is_file(d, p)
content_of(d, p) == (CHOOSE f \in d.files : f[1] = p)[2]

\* path.parent and its parents
parents(p) == {SubSeq(p, 1, k) : k \in 0..(Len(p) - 1)}

\* no location acted on
NoTarget == << <<"-">> >>

\* what a call leaves: whether it raised and what, its result dict, the
\* object's current_dir, the file system, and the location it acted on
ToolReturned(result, current_dir, d, target) ==
    [raised |-> FALSE, exc |-> JSONDecodeError, result |-> result,
     current_dir |-> current_dir, disk |-> d, target |-> target]

\* an operation returning with current_dir as it was
Done(self, d, result, target) == ToolReturned(result, self.current_dir, d, target)

read_file(self, d, file_path) ==
    IF ~is_safe_path(self, file_path)
    THEN Done(self, d, Failure(<<"Access denied: File path is outside current directory">>),
              NoTarget)
    ELSE LET path == resolve(Path(file_path))
         IN  IF ~exists(d, path)
             THEN Done(self, d, Failure(<<"File not found: ">> \o file_path), path)
             ELSE IF ~is_file(d, path)
             THEN Done(self, d, Failure(<<"Path is not a file: ">> \o file_path), path)
             ELSE Done(self, d, Success(<<"content: ">> \o content_of(d, path)), path)

write_file(self, d, file_path, content) ==
    IF ~is_safe_path(self, file_path)
    THEN Done(self, d, Failure(<<"Access denied: File path is outside current directory">>),
              NoTarget)
    ELSE LET text == IF content = None THEN <<>> ELSE content
             path == join(self.current_dir, Path(file_path))
             made == [d EXCEPT !.dirs = @ \cup parents(path)]
         IN  IF \E a \in parents(path) : is_file(d, a)
             THEN Done(self, d, Failure(<<"Error writing file: ">> \o file_path), path)
             ELSE IF is_dir(made, path)
             THEN Done(self, made, Failure(<<"Error writing file: ">> \o file_path), path)
             ELSE Done(self,
                       [made EXCEPT !.files =
                            {f \in @ : f[1] # path} \cup {<<path, text>>}],
                       Success(<<"File written successfully: ">> \o file_path), path)

list_directory(self, d, given) ==
    LET directory_path == IF given = <<".">> THEN path_str[self.current_dir] ELSE given
    IN  IF ~is_safe_path(self, directory_path)
        THEN Done(self, d,
                  Failure(<<"Access denied: Directory path is outside current directory">>),
                  NoTarget)
        ELSE LET path == join(self.current_dir, Path(directory_path))
                 items == {q \in d.dirs \cup {f[1] : f \in d.files} :
                               Len(q) = Len(path) + 1 /\ SubSeq(q, 1, Len(path)) = path}
             IN  IF ~exists(d, path)
                 THEN Done(self, d, Failure(<<"Directory not found: ">> \o directory_path), path)
                 ELSE IF ~is_dir(d, path)
                 THEN Done(self, d, Failure(<<"Path is not a directory: ">> \o directory_path),
                           path)
                 ELSE Done(self, d,
                           Success(<<"total_items: ", ToString(Cardinality(items))>>), path)

get_current_directory(self, d) ==
    Done(self, d, Success(<<"current_directory: ">> \o path_str[self.current_dir]),
         self.current_dir)

change_directory(self, d, directory_path) ==
    IF ~is_safe_path(self, directory_path)
    THEN Done(self, d, Failure(<<"Access denied: Directory path is outside allowed scope">>),
              NoTarget)
    ELSE LET path == join(self.current_dir, Path(directory_path))
         IN  IF ~exists(d, path)
             THEN Done(self, d, Failure(<<"Directory not found: ">> \o directory_path), path)
             ELSE IF ~is_dir(d, path)
             THEN Done(self, d, Failure(<<"Path is not a directory: ">> \o directory_path),
                       path)
             ELSE ToolReturned(Success(<<"Changed directory from ">>
                                      \o path_str[self.current_dir]
                                      \o <<" to ">> \o path_str[path]),
                           path, d, path)

create_directory(self, d, directory_path) ==
    IF ~is_safe_path(self, directory_path)
    THEN Done(self, d,
              Failure(<<"Access denied: Directory path is outside current directory">>),
              NoTarget)
    ELSE LET path == join(self.current_dir, Path(directory_path))
         IN  IF exists(d, path)
             THEN Done(self, d, Failure(<<"Directory already exists: ">> \o directory_path),
                       path)
             ELSE IF \E a \in parents(path) : is_file(d, a)
             THEN Done(self, d, Failure(<<"Error creating directory: ">> \o directory_path),
                       path)
             ELSE Done(self, [d EXCEPT !.dirs = @ \cup parents(path) \cup {path}],
                       Success(<<"Directory created successfully: ">> \o directory_path),
                       path)

get_file_info(self, d, file_path) ==
    IF ~is_safe_path(self, file_path)
    THEN Done(self, d, Failure(<<"Access denied: File path is outside current directory">>),
              NoTarget)
    ELSE LET path == join(self.current_dir, Path(file_path))
         IN  IF ~exists(d, path)
             THEN Done(self, d, Failure(<<"Path not found: ">> \o file_path), path)
             ELSE Done(self, d,
                       Success(<<"type: ", IF is_dir(d, path) THEN "directory" ELSE "file">>),
                       path)

\* the dispatch of execute_tool on the parsed arguments
dispatch(self, d, function_name, arguments) ==
    IF function_name = "read_file"
    THEN read_file(self, d, json_get(arguments, "file_path", None))
    ELSE IF function_name = "write_file"
    THEN write_file(self, d, json_get(arguments, "file_path", None),
                    json_get(arguments, "content", None))
    ELSE IF function_name = "list_directory"
    THEN list_directory(self, d, json_get(arguments, "directory_path", <<".">>))
    ELSE IF function_name = "get_current_directory"
    THEN get_current_directory(self, d)
    ELSE IF function_name = "change_directory"
    THEN change_directory(self, d, json_get(arguments, "directory_path", None))
    ELSE IF function_name = "create_directory"
    THEN create_directory(self, d, json_get(arguments, "directory_path", None))
    ELSE IF function_name = "get_file_info"
    THEN get_file_info(self, d, json_get(arguments, "file_path", None))
    ELSE Done(self, d, Failure(<<"Unknown function: ", function_name>>), NoTarget)

\* FileTools.execute_tool.  json.loads runs before the dispatch and outside
\* any try: on a text that is not JSON the call raises and nothing else
\* happens.
execute_tool(self, d, tool_call) ==
    IF ~json_loads_ok(tool_call.arguments)
    THEN [raised |-> TRUE, exc |-> JSONDecodeError, result |-> Failure(<<>>),
          current_dir |-> self.current_dir, disk |-> d, target |-> NoTarget]
    ELSE dispatch(self, d, tool_call.name, tool_call.arguments)

\* a tool turn bound to the function name instead of the request id
tool_message_by_name(tool_call, result) ==
    [tool_call_id |-> tool_call.name, role |-> "tool", content |-> json_dumps(result)]

\* one entry of tool_results
tool_message(tool_call, result) ==
    [tool_call_id |-> tool_call.id, role |-> "tool", content |-> json_dumps(result)]

-----------------------------------------------------------------------------
(* Messages and gateway requests *)

user_message(content) == [role |-> "user", content |-> content]
system_message(content) == [role |-> "system", content |-> content]

\* Session.add_assistant_message: tool_calls is stored only when non-empty
session_assistant_message(content, tool_calls) ==
    IF tool_calls # <<>>
    THEN [role |-> "assistant", content |-> content, tool_calls |-> tool_calls]
    ELSE [role |-> "assistant", content |-> content]

\* an assistant entry that drops the tool requests of the reply
chatbot_assistant_message_without_calls(content, tool_calls) ==
    [role |-> "assistant", content |-> content, tool_calls |-> <<>>]

\* the assistant entry Chatbot.send_message stores: tool_calls always present
chatbot_assistant_message(content, tool_calls) ==
    [role |-> "assistant", content |-> content, tool_calls |-> tool_calls]

\* the assistant entry Chatbot._handle_tool_calls stores after the follow-up
final_assistant_message(content) == [role |-> "assistant", content |-> content]

NoRequest ==
    [purpose |-> "none", messages |-> <<>>, tools |-> FALSE,
     temperature |-> "", session_id |-> ""]

\* a gateway that advertises the tools with every request
Request_advertising_tools(purpose, messages, tools, temperature, sid) ==
    [purpose |-> purpose, messages |-> messages, tools |-> TRUE,
     temperature |-> temperature, session_id |-> sid]

Request(purpose, messages, tools, temperature, sid) ==
    [purpose |-> purpose, messages |-> messages, tools |-> tools,
     temperature |-> temperature, session_id |-> sid]

-----------------------------------------------------------------------------
(* Conversation state (session.py).  Lists and message dicts are objects:   *)
(* a list holds the addresses of its dicts, so that two lists can share a   *)
(* dict and list.copy() gives a new list of the same dicts.                 *)

\* addresses of message dicts
Addrs == 1..MaxObjects
\* addresses of lists, in the order the allocator tries them: the session's
\* list, a list the caller was given, a backup, and the one being made
ListAddrs == <<"L1", "L2", "L3", "L4">>

\* an address that holds no dict, a list address that holds no list
Free == [role |-> "free"]
FreeList == <<0>>
\* no list held
NoList == "no list"

EmptyHeap == [lists |-> [l \in {ListAddrs[i] : i \in DOMAIN ListAddrs} |-> FreeList],
              dicts |-> [a \in Addrs |-> Free]]

\* number of addresses that hold no dict
free_dicts(h) == Cardinality({a \in Addrs : h.dicts[a] = Free})

\* the address the next dict gets
new_dict(h) == CHOOSE a \in Addrs : h.dicts[a] = Free /\ \A b \in Addrs : h.dicts[b] = Free => a <= b

\* the address the next list gets
new_list(h) ==
    ListAddrs[CHOOSE i \in DOMAIN ListAddrs :
                 /\ h.lists[ListAddrs[i]] = FreeList
                 /\ \A j \in DOMAIN ListAddrs : h.lists[ListAddrs[j]] = FreeList => i <= j]

\* the items of a list, none for no list
items_of(h, l) == IF l = NoList THEN <<>> ELSE h.lists[l]

\* what is left of the heap when only the Session's list s, the list r its
\* caller was given and the backup b are referenced.  An address is only
\* ever compared with another one, so the lists are put at the first three
\* list addresses and the dicts numbered in the order s, r and b reach them.
collect(h, s, r, b) ==
    LET reached == items_of(h, s) \o items_of(h, r) \o items_of(h, b)
        first(a) == CHOOSE i \in DOMAIN reached :
                        reached[i] = a /\ \A j \in 1..(i - 1) : reached[j] # a
        live == {reached[i] : i \in DOMAIN reached}
        number(a) == Cardinality({c \in live : first(c) <= first(a)})
        moved(l) == IF l = NoList THEN FreeList
                    ELSE [i \in DOMAIN h.lists[l] |-> number(h.lists[l][i])]
    IN  [lists |-> [l \in DOMAIN h.lists |->
                       IF l = ListAddrs[1] THEN moved(s)
                       ELSE IF l = ListAddrs[2] THEN moved(r)
                       ELSE IF l = ListAddrs[3] THEN moved(b)
                       ELSE FreeList],
         dicts |-> [n \in Addrs |->
                       IF \E a \in live : number(a) = n
                       THEN h.dicts[CHOOSE a \in live : number(a) = n]
                       ELSE Free]]

\* where collect leaves the list its caller named l
collected(l, place) == IF l = NoList THEN NoList ELSE ListAddrs[place]

\* the messages of a list, in order
messages_of(h, l) == [i \in DOMAIN h.lists[l] |-> h.dicts[h.lists[l][i]]]

\* list.append of a new dict
list_append(h, l, message) ==
    [lists |-> [h.lists EXCEPT ![l] = Append(@, new_dict(h))],
     dicts |-> [h.dicts EXCEPT ![new_dict(h)] = message]]

\* list.copy(): a new list of the same dicts
list_copy(h, l) == [h EXCEPT !.lists[new_list(h)] = h.lists[l]]

\* [] bound to a name: a new, empty list
list_new(h) == [h EXCEPT !.lists[new_list(h)] = <<>>]

\* what a method leaves: the object, the heap, and what it returned
Left(self, h, value) == [self |-> self, heap |-> h, value |-> value]

\* no Session object
NoSession == [session_id |-> "", conversation_history |-> NoList]

\* Session.__init__
Session_init(h, id) ==
    Left([session_id |-> id, conversation_history |-> new_list(h)], list_new(h), None)

Session_add_user_message(self, h, content) ==
    Left(self, list_append(h, self.conversation_history, user_message(content)), None)

Session_add_assistant_message(self, h, content, tool_calls) ==
    Left(self, list_append(h, self.conversation_history,
                           session_assistant_message(content, tool_calls)), None)

\* extend with the dicts of the caller's list
Session_add_tool_results(self, h, tool_results) ==
    Left(self, [h EXCEPT !.lists[self.conversation_history] = @ \o h.lists[tool_results]],
         None)

Session_add_system_message(self, h, content) ==
    Left(self, list_append(h, self.conversation_history, system_message(content)), None)

Session_get_conversation_history(self, h) ==
    Left(self, list_copy(h, self.conversation_history), new_list(h))

\* a clear that also takes a new session id
Session_clear_history_resetting(self, h) ==
    Left([session_id |-> CHOOSE id \in SessionIds : id # self.session_id,
          conversation_history |-> new_list(h)], list_new(h), None)

Session_clear_history(self, h) ==
    Left([self EXCEPT !.conversation_history = new_list(h)], list_new(h), None)

\* a reset that keeps the log
Session_reset_session_keeping_history(self, h, id) ==
    Left([self EXCEPT !.session_id = id], h, id)

Session_reset_session(self, h, id) ==
    Left([session_id |-> id, conversation_history |-> new_list(h)], list_new(h), id)

\* an info that counts every turn as a message
session_info_counting_all(id, messages) ==
    [session_id |-> id,
     message_count |-> Len(messages),
     tool_calls_count |-> Len(SelectSeq(messages, LAMBDA msg : msg.role = "tool"))]

\* the dict get_session_info builds from a session id and the messages
session_info(id, messages) ==
    [session_id |-> id,
     message_count |-> Len(SelectSeq(messages, LAMBDA msg : msg.role \in {"user", "assistant"})),
     tool_calls_count |-> Len(SelectSeq(messages, LAMBDA msg : msg.role = "tool"))]

Session_get_session_info(self, h) ==
    Left(self, h, session_info(self.session_id, messages_of(h, self.conversation_history)))

Session_backup_history(self, h) ==
    Left(self, list_copy(h, self.conversation_history), new_list(h))

\* a restore that puts the backup after what the log holds
Session_restore_history_merging(self, h, backup) ==
    Left(self, [h EXCEPT !.lists[self.conversation_history] = @ \o h.lists[backup]], None)

Session_restore_history(self, h, backup) ==
    Left([self EXCEPT !.conversation_history = new_list(h)], list_copy(h, backup), None)

\* Chatbot.get_session_info
chatbot_session_info(id, history) == session_info(id, history)

-----------------------------------------------------------------------------
(* Prompts of the goal loop *)

PreviewLen == 100

\* _create_master_plan: the two messages of the planning request
plan_messages(goal) ==
    << system_message(<<"You are an autonomous AI agent. Create comprehensive plans to achieve goals.">>),
       user_message(<<"Create a comprehensive plan to achieve this goal: ">> \o goal
                    \o <<"Available tools: ...">>) >>

\* the preview of one result in GoalExecutor._decide_next_action
result_preview(result) ==
    IF Len(str(result)) > PreviewLen
    THEN SubSeq(str(result), 1, PreviewLen) \o <<"...">>
    ELSE str(result)

RECURSIVE chatbot_summary(_, _)
\* Chatbot._decide_next_action: "i. action" for each completed action
chatbot_summary(completed_actions, i) ==
    IF i > Len(completed_actions) THEN <<>>
    ELSE <<ToString(i), ". ">> \o completed_actions[i].action \o <<"\n">>
         \o chatbot_summary(completed_actions, i + 1)

RECURSIVE executor_summary(_, _)
\* GoalExecutor._decide_next_action: action and result preview of each one
executor_summary(completed_actions, i) ==
    IF i > Len(completed_actions) THEN <<>>
    ELSE <<ToString(i), ". ">> \o completed_actions[i].action \o <<"\n   Result: ">>
         \o result_preview(completed_actions[i].result) \o <<"\n">>
         \o executor_summary(completed_actions, i + 1)

\* a deciding request that leaves the plan out
decide_messages_without_plan(impl, goal, plan, completed_actions) ==
    IF impl = "chatbot"
    THEN << system_message(<<"You are executing a plan. Decide the next specific action based on what's already been done.">>),
            user_message(<<"Goal: ">> \o goal \o <<"\nPlan: ">> \o <<>>
                \o (IF completed_actions # <<>>
                    THEN <<"\n\nCompleted Actions:\n">> \o chatbot_summary(completed_actions, 1)
                    ELSE <<>>)
                \o <<"...">>) >>
    ELSE << system_message(<<"You are a goal execution agent. ...">>),
            user_message(<<"GOAL: ">> \o goal \o <<"\n\nORIGINAL PLAN:\n">> \o <<>>
                \o (IF completed_actions # <<>>
                    THEN <<"\n\nCOMPLETED ACTIONS AND RESULTS:\n">>
                         \o executor_summary(completed_actions, 1)
                    ELSE <<>>)
                \o <<"...">>) >>

\* the two messages of a deciding request
decide_messages(impl, goal, plan, completed_actions) ==
    IF impl = "chatbot"
    THEN << system_message(<<"You are executing a plan. Decide the next specific action based on what's already been done.">>),
            user_message(<<"Goal: ">> \o goal \o <<"\nPlan: ">> \o str(plan)
                \o (IF completed_actions # <<>>
                    THEN <<"\n\nCompleted Actions:\n">> \o chatbot_summary(completed_actions, 1)
                    ELSE <<>>)
                \o <<"...">>) >>
    ELSE << system_message(<<"You are a goal execution agent. ...">>),
            user_message(<<"GOAL: ">> \o goal \o <<"\n\nORIGINAL PLAN:\n">> \o str(plan)
                \o (IF completed_actions # <<>>
                    THEN <<"\n\nCOMPLETED ACTIONS AND RESULTS:\n">>
                         \o executor_summary(completed_actions, 1)
                    ELSE <<>>)
                \o <<"...">>) >>

execute_system_message == system_message(<<"Execute the requested action using available tools.">>)

execute_prompt(action) ==
    <<"Execute this action: ">> \o action
    \o <<"\n\nUse the available tools to complete this action.\nBe direct and efficient.">>

\* the completion check without the case folding
is_goal_complete_case_sensitive(next_action) ==
    \/ contains(GOAL_COMPLETE, next_action)
    \/ contains(FINISHED, next_action)

\* the completion check of both goal loops
is_goal_complete(next_action) ==
    \/ contains(GOAL_COMPLETE, upper(next_action))
    \/ contains(FINISHED, upper(next_action))

\* the loop condition running one action too many
loop_continues_inclusive(action_count, max_actions) == action_count <= max_actions

\* a loop condition that takes a ceiling of zero as no ceiling
loop_continues_unlimited_at_zero(action_count, max_actions) ==
    max_actions = 0 \/ action_count < max_actions

\* the loop condition of both goal loops
loop_continues(action_count, max_actions) == action_count < max_actions

\* the ceiling of Chatbot.run_goal
chatbot_max_actions == MaxActions
\* values of Config.max_goal_actions; a value below zero skips the loop as
\* zero does
ConfigMaxActions == 0..MaxActions

\* a goal loop without an exception handler
goal_catches_nothing(exc) == FALSE

\* a handler that catches API errors only
goal_catches_api_errors(exc) == exc.type \in {"Exception", "APIConnectionError"}

\* `except Exception` of run_goal / execute_goal
goal_catches(exc) == exc.type \in ExceptionClasses

\* a handler that catches API errors only
send_catches_api_errors(exc) == exc.type \in {"Exception", "APIConnectionError"}

\* `except Exception` of Chatbot.send_message
send_catches(exc) == exc.type \in ExceptionClasses

\* a wrapper that drops the text of the cause
api_wrap_without_cause(prefix, exc) ==
    IF exc.type \in ExceptionClasses
    THEN [type |-> "Exception", msg |-> <<prefix>>]
    ELSE exc

\* `except Exception` of OpenAIClient: the wrapped error
api_wrap(prefix, exc) ==
    IF exc.type \in ExceptionClasses
    THEN [type |-> "Exception", msg |-> <<prefix>> \o exc.msg]
    ELSE exc

budget_message(max_actions) ==
    <<"Goal execution reached maximum actions (", ToString(max_actions), ")">>

failed_message(exc) == <<"Goal execution failed: ">> \o exc.msg

error_reply(exc) == <<"Error: ">> \o exc.msg

-----------------------------------------------------------------------------
(* State *)

NoMed == [pc |-> "none", tool_calls |-> <<>>, tool_results |-> <<>>]

NoRun ==
    [impl |-> "none", goal |-> <<>>, plan |-> <<>>, max_actions |-> 0,
     action_count |-> 0, completed_actions |-> <<>>, next_action |-> <<>>,
     original_history |-> <<>>]

NoResult == [kind |-> "none", value |-> <<>>, exc |-> "none"]
Returned(value) == [kind |-> "return", value |-> value, exc |-> "none"]
Raised(exc) == [kind |-> "raise", value |-> exc.msg, exc |-> exc.type]

\* observation of the current operation: H is the interactive log when
\* run_goal was invoked; planned tells that the plan was received; deciding
\* counts the DECIDING replies and acting the ACTING steps begun (up to
\* MaxActions + 1, which stands for "more than MaxActions"); decision is the
\* last DECIDING reply; failure is the last exception raised inside the
\* operation; requested holds the tool requests of the last first reply
\* that Chatbot.send_message received; before is the interactive log when
\* send_message was invoked.  Of the pass in progress or last ended: calls
\* are the tool requests of its first reply, executed the tool executions
\* so far (request, current_dir and file system before, outcome),
\* follow_ups the follow-up requests issued, final the content of the reply
\* that ended it
NoFinal == <<"no reply">>

NoObs ==
    [H |-> <<>>, planned |-> FALSE, deciding |-> 0, acting |-> 0,
     decision |-> <<>>, failure |-> "none", failure_msg |-> <<>>,
     requested |-> <<>>, before |-> <<>>, calls |-> <<>>, executed |-> <<>>,
     follow_ups |-> 0, final |-> NoFinal, failed |-> NoRequest, plan |-> <<>>]

\* the observation when a pass begins
NewPass(o) ==
    [o EXCEPT !.calls = <<>>, !.executed = <<>>, !.follow_ups = 0, !.final = NoFinal]

Count(n) == IF n > MaxActions THEN n ELSE n + 1

Observe(o, exc) == [o EXCEPT !.failure = exc.type, !.failure_msg = exc.msg]

Running == {"PLANNING", "DECIDING", "ACTING"}
Ended == {"COMPLETE", "BUDGET_EXHAUSTED", "FAILED", "PROPAGATED"}

\* no operation is in progress: the command loop is waiting for input
Idle == goal_state \notin Running /\ med.pc = "none"

\* the second task has not called: pc is its position, request its gateway
\* request in flight, turns what it appended to the log, reply what its
\* send_message returned
NoOther == [pc |-> "none", request |-> NoRequest, turns |-> <<>>, reply |-> NoResult]

\* the command loop has read no line yet
NoCli == [line |-> None, call |-> "none", text |-> <<>>, printed |-> "welcome", read |-> 0]

\* nothing given to the caller yet
NoInfo == [session_id |-> "", message_count |-> -1, tool_calls_count |-> -1]
NoCaller == [returned |-> NoList, backup |-> NoList, info |-> NoInfo, new_id |-> ""]

\* observation of the last clear, reset, info or Session operation: op names
\* it, prior_id is the session id and held the number of messages in the
\* log when it began; snapshot holds the messages the backup had when it
\* was taken, and clean tells that no message was added, removed or
\* written since
NoLast == [op |-> "none", prior_id |-> "", held |-> 0, snapshot |-> <<>>, clean |-> FALSE]

\* the program of cli.py: a Chatbot, and no Session object
ChatbotInit ==
    /\ session_id = "uuid-1"
    /\ conversation_history = <<>>
    /\ temp_history = <<>>
    /\ request = NoRequest
    /\ med = NoMed
    /\ run = NoRun
    /\ send_reply = NoResult
    /\ goal_state = "IDLE"
    /\ goal_result = NoResult
    /\ file_tools = [current_dir |-> ProcessCwd]
    /\ disk = InitialDisk
    /\ obs = NoObs
    /\ other = NoOther
    /\ cli = NoCli

Init ==
    /\ ChatbotInit
    /\ session = NoSession
    /\ heap = EmptyHeap
    /\ caller = NoCaller
    /\ last = NoLast

-----------------------------------------------------------------------------
(* Ends of the goal loop.  These set every variable but session_id, run and *)
(* obs.                                                                     *)

\* run_goal without the restore
finally_history_missing(r, history) == history

\* the finally block of Chatbot.run_goal; execute_goal has none and never
\* holds the interactive log
finally_history(r, history) ==
    IF r.impl = "chatbot" THEN r.original_history ELSE history

\* return from run_goal / execute_goal
ReturnFromGoal(state, value) ==
    /\ goal_state' = state
    /\ goal_result' = Returned(value)
    /\ conversation_history' = finally_history(run, conversation_history)
    /\ temp_history' = <<>>
    /\ request' = NoRequest
    /\ med' = NoMed
    /\ UNCHANGED send_reply

\* an exception reaches the try block of run_goal / execute_goal
GoalRaise(exc) ==
    IF goal_catches(exc)
    THEN ReturnFromGoal("FAILED", failed_message(exc))
    ELSE /\ goal_state' = "PROPAGATED"
         /\ goal_result' = Raised(exc)
         /\ conversation_history' = finally_history(run, conversation_history)
         /\ temp_history' = <<>>
         /\ request' = NoRequest
         /\ med' = NoMed
         /\ UNCHANGED send_reply

\* the head of the while loop, with the log as the step before left it
LoopHead(r, history) ==
    IF loop_continues(r.action_count, r.max_actions)
    THEN /\ goal_state' = "DECIDING"
         /\ request' = Request("decide",
                               decide_messages(r.impl, r.goal, r.plan, r.completed_actions),
                               FALSE, IF r.impl = "chatbot" THEN "0.2" ELSE "0.1",
                               session_id)
         /\ conversation_history' = history
         /\ temp_history' = <<>>
         /\ med' = NoMed
         /\ UNCHANGED <<goal_result, send_reply>>
    ELSE /\ goal_state' = "BUDGET_EXHAUSTED"
         /\ goal_result' = Returned(budget_message(r.max_actions))
         /\ conversation_history' = finally_history(r, history)
         /\ temp_history' = <<>>
         /\ request' = NoRequest
         /\ med' = NoMed
         /\ UNCHANGED send_reply

\* a loop body that counts the action without recording it
track_completed_unrecorded(r, result) == [r EXCEPT !.action_count = @ + 1]

\* the loop body after _execute_action returned
track_completed(r, result) ==
    [r EXCEPT !.completed_actions =
                  Append(@, [action |-> r.next_action, result |-> result]),
              !.action_count = @ + 1]

\* _execute_action returned `result`
ActionReturns(result, history) ==
    /\ run' = track_completed(run, result)
    /\ LoopHead(run', history)

\* Chatbot.send_message returns `value`, to the command loop or to
\* Chatbot._execute_action
SendMessageReturns(value, history) ==
    IF goal_state = "ACTING"
    THEN ActionReturns(value, history)
    ELSE /\ send_reply' = Returned(value)
         /\ conversation_history' = history
         /\ request' = NoRequest
         /\ med' = NoMed
         /\ UNCHANGED <<temp_history, run, goal_state, goal_result>>

\* an exception inside the try block of Chatbot.send_message
SendRaise(exc, history) ==
    IF send_catches(exc)
    THEN SendMessageReturns(error_reply(exc), history)
    ELSE IF goal_state = "ACTING"
    THEN GoalRaise(exc) /\ UNCHANGED run
    ELSE /\ send_reply' = Raised(exc)
         /\ conversation_history' = history
         /\ request' = NoRequest
         /\ med' = NoMed
         /\ UNCHANGED <<temp_history, run, goal_state, goal_result>>

\* a failure path that takes back the last turn of the log
PassRaise_taking_back(exc) ==
    IF run.impl = "executor" /\ goal_state = "ACTING"
    THEN GoalRaise(exc) /\ UNCHANGED run
    ELSE SendRaise(exc, SubSeq(conversation_history, 1, Len(conversation_history) - 1))

\* an exception inside a step of the pass in progress
PassRaise(exc) ==
    IF run.impl = "executor" /\ goal_state = "ACTING"
    THEN GoalRaise(exc) /\ UNCHANGED run
    ELSE SendRaise(exc, conversation_history)

-----------------------------------------------------------------------------
(* Operations of the command loop (cli.py) on the Chatbot *)

\* Chatbot.send_message up to its first await
send_message(message) ==
    /\ Idle
    /\ Len(conversation_history) < MaxHistory
    /\ conversation_history' = Append(conversation_history, user_message(message))
    /\ request' = Request("create", conversation_history', TRUE, "0.7", session_id)
    /\ med' = [NoMed EXCEPT !.pc = "create"]
    /\ goal_state' = "IDLE"
    /\ run' = NoRun
    /\ obs' = [NoObs EXCEPT !.before = conversation_history]
    /\ send_reply' = NoResult
    /\ goal_result' = NoResult
    /\ caller' = NoCaller
    /\ last' = NoLast
    /\ UNCHANGED <<session_id, temp_history, file_tools, disk, session, heap, other>>

\* a clear_history that also takes a fresh session id
clear_history_with_new_id ==
    /\ Idle
    /\ session_id' \in SessionIds \ {session_id}
    /\ conversation_history' = <<>>
    /\ goal_state' = "IDLE"
    /\ run' = NoRun
    /\ obs' = NoObs
    /\ send_reply' = NoResult
    /\ goal_result' = NoResult
    /\ caller' = NoCaller
    /\ last' = [NoLast EXCEPT !.op = "clear", !.prior_id = session_id,
                              !.held = Len(conversation_history)]
    /\ UNCHANGED <<temp_history, request, med, file_tools, disk, session, heap, other>>

\* Chatbot.clear_history
clear_history ==
    /\ Idle
    /\ conversation_history' = <<>>
    /\ goal_state' = "IDLE"
    /\ run' = NoRun
    /\ obs' = NoObs
    /\ send_reply' = NoResult
    /\ goal_result' = NoResult
    /\ caller' = NoCaller
    /\ last' = [NoLast EXCEPT !.op = "clear", !.prior_id = session_id,
                              !.held = Len(conversation_history)]
    /\ UNCHANGED <<session_id, temp_history, request, med, file_tools, disk, session, heap, other>>

\* Chatbot.reset_session: a fresh uuid4 and an empty log
reset_session ==
    /\ Idle
    /\ session_id' \in SessionIds \ {session_id}
    /\ conversation_history' = <<>>
    /\ goal_state' = "IDLE"
    /\ run' = NoRun
    /\ obs' = NoObs
    /\ send_reply' = NoResult
    /\ goal_result' = NoResult
    /\ caller' = [NoCaller EXCEPT !.new_id = session_id']
    /\ last' = [NoLast EXCEPT !.op = "reset", !.prior_id = session_id,
                              !.held = Len(conversation_history)]
    /\ UNCHANGED <<temp_history, request, med, file_tools, disk, session, heap, other>>

\* Chatbot.get_session_info, for the `session` command
get_session_info ==
    /\ Idle
    /\ caller' = [NoCaller EXCEPT !.info = chatbot_session_info(session_id, conversation_history)]
    /\ last' = [NoLast EXCEPT !.op = "info", !.prior_id = session_id,
                              !.held = Len(conversation_history)]
    /\ UNCHANGED <<chatbot_vars, session, heap, other>>

\* Chatbot.run_goal up to the await in _create_master_plan
run_goal(goal) ==
    /\ Idle
    /\ run' = [NoRun EXCEPT !.impl = "chatbot", !.goal = goal,
                            !.original_history = conversation_history]
    /\ conversation_history' = <<>>
    /\ request' = Request("plan", plan_messages(goal), FALSE, "0.3", session_id)
    /\ goal_state' = "PLANNING"
    /\ obs' = [NoObs EXCEPT !.H = conversation_history]
    /\ send_reply' = NoResult
    /\ goal_result' = NoResult
    /\ caller' = NoCaller
    /\ last' = NoLast
    /\ UNCHANGED <<session_id, temp_history, med, file_tools, disk, session, heap, other>>

\* GoalExecutor.execute_goal up to the await in _create_master_plan
execute_goal(goal) ==
    /\ Idle
    /\ run' = [NoRun EXCEPT !.impl = "executor", !.goal = goal]
    /\ request' = Request("plan", plan_messages(goal), FALSE, "0.3", session_id)
    /\ goal_state' = "PLANNING"
    /\ obs' = [NoObs EXCEPT !.H = conversation_history]
    /\ send_reply' = NoResult
    /\ goal_result' = NoResult
    /\ caller' = NoCaller
    /\ last' = NoLast
    /\ UNCHANGED <<session_id, conversation_history, temp_history, med, file_tools, disk,
                   session, heap, other>>

-----------------------------------------------------------------------------
(* Steps of the goal loop *)

\* the content kept as it is, text or not
or_else_content(content, fallback) == content

\* Python's `content or fallback`
or_else(content, fallback) ==
    IF content = None \/ content = <<>> THEN fallback ELSE content

\* the exception a failing gateway call raises in its caller: OpenAIClient
\* wraps what the request raises, Chatbot calls the API itself
gateway_exception(impl, purpose, failure) ==
    IF impl = "executor"
    THEN api_wrap(IF purpose = "follow_up" THEN "Follow-up API request failed: "
                  ELSE "API request failed: ", failure)
    ELSE failure

\* the planning reply arrives; the loop starts
PlanReturn(content, max_actions) ==
    /\ goal_state = "PLANNING"
    /\ request.purpose = "plan"
    /\ run' = [run EXCEPT !.plan = content, !.max_actions = max_actions,
                          !.action_count = 0, !.completed_actions = <<>>]
    /\ obs' = [obs EXCEPT !.planned = TRUE, !.plan = content]
    /\ LoopHead(run', conversation_history)
    /\ UNCHANGED <<session_id, file_tools, disk, session_vars, other, cli>>

\* a deciding reply arrives: completion check, else _execute_action up to
\* its first await
DecideReturn(content) ==
    /\ goal_state = "DECIDING"
    /\ request.purpose = "decide"
    /\ UNCHANGED <<session_id, file_tools, disk, session_vars, other, cli>>
    /\ IF content = None
       THEN /\ obs' = Observe([obs EXCEPT !.deciding = Count(@), !.decision = content],
                              AttributeError)
            /\ GoalRaise(AttributeError)
            /\ UNCHANGED run
       ELSE IF is_goal_complete(content)
       THEN /\ obs' = [obs EXCEPT !.deciding = Count(@), !.decision = content]
            /\ ReturnFromGoal("COMPLETE", content)
            /\ UNCHANGED run
       ELSE /\ obs' = NewPass([obs EXCEPT !.deciding = Count(@), !.decision = content,
                                          !.acting = Count(@)])
            /\ run' = [run EXCEPT !.next_action = content]
            /\ goal_state' = "ACTING"
            /\ med' = [NoMed EXCEPT !.pc = "create"]
            /\ UNCHANGED <<goal_result, send_reply>>
            /\ IF run.impl = "chatbot"
               THEN /\ conversation_history' =
                          conversation_history
                          \o <<execute_system_message, user_message(execute_prompt(content))>>
                    /\ request' = Request("create", conversation_history', TRUE, "0.7",
                                          session_id)
                    /\ UNCHANGED temp_history
               ELSE /\ temp_history' =
                          <<execute_system_message, user_message(execute_prompt(content))>>
                    /\ request' = Request("create", temp_history', TRUE, "TEMPERATURE",
                                          session_id)
                    /\ UNCHANGED conversation_history

-----------------------------------------------------------------------------
(* Steps of a tool-call pass: Chatbot.send_message / _handle_tool_calls and *)
(* GoalExecutor._execute_action / _handle_tool_calls_for_action             *)

InExecutor == run.impl = "executor" /\ goal_state = "ACTING"

\* the first reply of the pass arrives
CreateReturn(content, tool_calls) ==
    /\ med.pc = "create"
    /\ request.purpose = "create"
    /\ UNCHANGED <<session_id, file_tools, disk, session_vars, other, cli>>
    /\ obs' = [NewPass(obs) EXCEPT
                  !.requested = (IF InExecutor THEN @ ELSE tool_calls),
                  !.calls = tool_calls,
                  !.final = (IF tool_calls = <<>> THEN content ELSE NoFinal)]
    /\ IF InExecutor
       THEN IF tool_calls # <<>>
            THEN /\ temp_history' =
                       Append(temp_history, session_assistant_message(None, tool_calls))
                 /\ med' = [pc |-> "tools", tool_calls |-> tool_calls, tool_results |-> <<>>]
                 /\ request' = NoRequest
                 /\ UNCHANGED <<conversation_history, run, send_reply, goal_state, goal_result>>
            ELSE ActionReturns(or_else(content, <<"Action completed">>), conversation_history)
       ELSE LET history == Append(conversation_history,
                                  chatbot_assistant_message(content, tool_calls))
            IN  IF tool_calls # <<>>
                THEN /\ conversation_history' = history
                     /\ med' = [pc |-> "tools", tool_calls |-> tool_calls,
                                tool_results |-> <<>>]
                     /\ request' = NoRequest
                     /\ UNCHANGED <<temp_history, run, send_reply, goal_state, goal_result>>
                ELSE SendMessageReturns(content, history)

\* one iteration of the loop over tool_calls
ExecuteTool ==
    /\ med.pc = "tools"
    /\ Len(med.tool_results) < Len(med.tool_calls)
    /\ UNCHANGED <<session_id, session_vars, other, cli>>
    /\ \E tool_call \in {med.tool_calls[Len(med.tool_results) + 1]} :
       \E outcome \in {execute_tool(file_tools, disk, tool_call)} :
       \E seen \in {[obs EXCEPT !.executed =
                        Append(@, [call |-> tool_call, dir |-> file_tools.current_dir,
                                   disk |-> disk, outcome |-> outcome])]} :
           /\ file_tools' = [file_tools EXCEPT !.current_dir = outcome.current_dir]
           /\ disk' = outcome.disk
           /\ IF outcome.raised
              THEN /\ obs' = Observe(seen, outcome.exc)
                   /\ PassRaise(outcome.exc)
              ELSE /\ obs' = seen
                   /\ med' = [med EXCEPT !.tool_results =
                                  Append(@, tool_message(tool_call, outcome.result))]
                   /\ UNCHANGED <<conversation_history, temp_history, request, run,
                                  send_reply, goal_state, goal_result>>

\* after the loop: the results join the log and the follow-up is requested
IssueFollowUp ==
    /\ med.pc = "tools"
    /\ Len(med.tool_results) = Len(med.tool_calls)
    /\ med' = [med EXCEPT !.pc = "follow_up"]
    /\ IF InExecutor
       THEN /\ temp_history' = temp_history \o med.tool_results
            /\ request' = Request("follow_up", temp_history', FALSE, "TEMPERATURE", session_id)
            /\ UNCHANGED conversation_history
       ELSE /\ conversation_history' = conversation_history \o med.tool_results
            /\ request' = Request("follow_up", conversation_history', FALSE, "0.7", session_id)
            /\ UNCHANGED temp_history
    /\ obs' = [obs EXCEPT !.follow_ups = @ + 1]
    /\ UNCHANGED <<session_id, run, send_reply, goal_state, goal_result, file_tools, disk,
                   session_vars, other, cli>>

\* the follow-up reply arrives
FollowUpReturn(content) ==
    /\ med.pc = "follow_up"
    /\ request.purpose = "follow_up"
    /\ obs' = [obs EXCEPT !.final = content]
    /\ UNCHANGED <<session_id, file_tools, disk, session_vars, other, cli>>
    /\ IF InExecutor
       THEN ActionReturns(or_else(content, <<"Action completed with tools">>),
                          conversation_history)
       ELSE SendMessageReturns(content,
                               Append(conversation_history, final_assistant_message(content)))

\* the gateway call in flight fails
GatewayFail(failure) ==
    /\ request # NoRequest
    /\ UNCHANGED <<session_id, file_tools, disk, session_vars, other, cli>>
    /\ LET exc == gateway_exception(run.impl, request.purpose, failure)
       IN  /\ obs' = [Observe(obs, exc) EXCEPT !.failed = request]
           /\ IF request.purpose \in {"plan", "decide"}
              THEN GoalRaise(exc) /\ UNCHANGED run
              ELSE PassRaise(exc)

\* KeyboardInterrupt while an operation is in progress
Interrupt ==
    /\ ~Idle
    /\ UNCHANGED <<session_id, file_tools, disk, obs, session_vars, other, cli>>
    /\ IF goal_state \in Running
       THEN GoalRaise(KeyboardInterrupt) /\ UNCHANGED run
       ELSE SendRaise(KeyboardInterrupt, conversation_history)

-----------------------------------------------------------------------------
(* The command loop (cli.py)                                                 *)

\* longest run of blanks typed before, inside and after a line
MaxSpaces == 1
\* lines the command loop reads in one run of the program
MaxLines == 2

\* the characters str.strip() removes, as far as they are typed here
Whitespace == {" ", "\t"}

\* str.lower() on one character
char_lower(c) ==
    IF \E i \in 1..Len(upper_letters) : upper_letters[i] = c
    THEN lower_letters[CHOOSE i \in 1..Len(upper_letters) : upper_letters[i] = c]
    ELSE c

\* str.lower()
lower(s) == [i \in 1..Len(s) |-> char_lower(s[i])]

\* str.strip(): leading and trailing whitespace goes, the inside stays
strip(s) ==
    LET kept == {i \in 1..Len(s) : s[i] \notin Whitespace}
    IN  IF kept = {} THEN <<>>
        ELSE SubSeq(s, CHOOSE i \in kept : \A j \in kept : i <= j,
                       CHOOSE i \in kept : \A j \in kept : j <= i)

\* the slice s[n:]
slice_from(s, n) == SubSeq(s, n + 1, Len(s))

\* the command words and the prefix of the goal command
quit_word == <<"q","u","i","t">>
clear_word == <<"c","l","e","a","r">>
help_word == <<"h","e","l","p">>
session_word == <<"s","e","s","s","i","o","n">>
reset_word == <<"r","e","s","e","t">>
goal_word == <<"g","o","a","l">>
goal_prefix == <<"g","o","a","l"," ">>

\* what one pass of the loop of CLI.run does with the line input() gave:
\* call is the Chatbot method it calls with text, printed what it prints
\* without calling the gateway
Taken(call, text, printed) == [call |-> call, text |-> text, printed |-> printed]

\* the body of the loop of CLI.run, from input() to the call it makes
CLI_dispatch(line) ==
    LET user_input == strip(line)
    IN  IF lower(user_input) = quit_word THEN Taken("none", <<>>, "goodbye")
        ELSE IF lower(user_input) = clear_word THEN Taken("clear_history", <<>>, "cleared")
        ELSE IF lower(user_input) = help_word THEN Taken("none", <<>>, "help")
        ELSE IF lower(user_input) = session_word THEN Taken("get_session_info", <<>>, "session")
        ELSE IF lower(user_input) = reset_word THEN Taken("reset_session", <<>>, "reset")
        ELSE IF startswith(lower(user_input), goal_prefix)
        THEN LET goal_text == strip(slice_from(user_input, 5))
             IN  IF goal_text # <<>>
                 THEN Taken("run_goal", goal_text, "nothing")
                 ELSE Taken("none", <<>>, "usage")
        ELSE IF user_input # <<>> THEN Taken("send_message", user_input, "nothing")
        ELSE Taken("none", <<>>, "enter")

\* one pass of the loop of CLI.run on a line: the loop reads the next line
\* once the call of the last one has returned, and `quit` leaves the loop
CLI_run(line) ==
    /\ Idle
    /\ cli.printed # "goodbye"
    /\ cli.read < MaxLines
    /\ \E taken \in {CLI_dispatch(line)} :
           /\ cli' = [line |-> line, call |-> taken.call, text |-> taken.text,
                      printed |-> taken.printed, read |-> cli.read + 1]
           /\ CASE taken.call = "send_message" -> send_message(taken.text)
                [] taken.call = "run_goal" -> run_goal(taken.text)
                [] taken.call = "clear_history" -> clear_history
                [] taken.call = "reset_session" -> reset_session
                [] taken.call = "get_session_info" -> get_session_info
                [] OTHER -> UNCHANGED <<chatbot_vars, session_vars, other>>

\* n blanks
Spaces(n) == [i \in 1..n |-> " "]

\* first words of the lines typed: nothing, command words as they are and
\* in capitals, the goal verb alone, in capitals, with a tab and inside a
\* longer word, a chat word
InputWords ==
    {<<>>, quit_word, clear_word, <<"H","e","l","p">>, session_word, reset_word,
     goal_word, <<"G","O","A","L">>, <<"g","o","a","l","\t">>, <<"g","o","a","l","s">>,
     <<"h","i">>}

\* what follows the first word
InputRests == {<<>>, <<"g">>}

\* the lines input() gives
InputLines ==
    {Spaces(a) \o word \o Spaces(b) \o rest \o Spaces(c) :
        a \in 0..MaxSpaces, b \in 0..MaxSpaces, c \in 0..MaxSpaces,
        word \in InputWords, rest \in InputRests}

-----------------------------------------------------------------------------
(* Operations of a caller on its Session object (session.py), and what the  *)
(* caller does with the lists it was given                                  *)

\* content given to add_user_message and add_system_message
SessionTexts == {<<"t">>}
\* arguments of add_assistant_message: a text, or tool requests without text
AssistantTurns ==
    { [content |-> <<"t">>, tool_calls |-> <<>>],
      [content |-> None,
       tool_calls |-> <<[id |-> "call_1", name |-> "read_file",
                         arguments |-> <<"{", "file_path", ":", "a", "}">>]>>] }
\* the value a caller writes into a field of a message it was given
WrittenText == <<"z">>

\* the Session object exists
Constructed == session # NoSession

\* the observation when an operation named op begins
Began(op, clean) ==
    [last EXCEPT !.op = op, !.prior_id = session.session_id,
                 !.held = Len(heap.lists[session.conversation_history]), !.clean = clean]

\* what the caller keeps when it calls again: the lists, not the last value
Holding == [caller EXCEPT !.info = NoInfo, !.new_id = ""]

\* an operation leaves the object and the heap of `left`, the caller holds
\* c, and what nothing references any more is gone
Leave(left, c, observed) ==
    /\ session' = [left.self EXCEPT !.conversation_history = ListAddrs[1]]
    /\ caller' = [c EXCEPT !.returned = collected(@, 2), !.backup = collected(@, 3)]
    /\ heap' = collect(left.heap, left.self.conversation_history, c.returned, c.backup)
    /\ last' = observed
    /\ UNCHANGED <<chatbot_vars, other, cli>>

AddUserMessage(content) ==
    /\ Constructed
    /\ free_dicts(heap) > 0
    /\ Leave(Session_add_user_message(session, heap, content), Holding, Began("add", FALSE))

AddAssistantMessage(content, tool_calls) ==
    /\ Constructed
    /\ free_dicts(heap) > 0
    /\ Leave(Session_add_assistant_message(session, heap, content, tool_calls), Holding,
             Began("add", FALSE))

AddSystemMessage(content) ==
    /\ Constructed
    /\ free_dicts(heap) > 0
    /\ Leave(Session_add_system_message(session, heap, content), Holding, Began("add", FALSE))

RECURSIVE with_tool_results(_, _, _, _)
\* the caller's tool_results list l after results i..n were appended to it
with_tool_results(h, l, i, n) ==
    IF i > n THEN h
    ELSE with_tool_results(
             list_append(h, l, tool_message([id |-> CallIds[i], name |-> "read_file"],
                                            Success(<<"content: ", "x">>))),
             l, i + 1, n)

\* the caller builds a list of n tool turns and hands it to add_tool_results
AddToolResults(n) ==
    /\ Constructed
    /\ free_dicts(heap) >= n
    /\ \E l \in {new_list(heap)} :
       \E h \in {with_tool_results(list_new(heap), l, 1, n)} :
           Leave(Session_add_tool_results(session, h, l), Holding, Began("add", FALSE))

GetConversationHistory ==
    /\ Constructed
    /\ \E left \in {Session_get_conversation_history(session, heap)} :
           Leave(left, [Holding EXCEPT !.returned = left.value], Began("history", last.clean))

BackupHistory ==
    /\ Constructed
    /\ \E left \in {Session_backup_history(session, heap)} :
           Leave(left, [Holding EXCEPT !.backup = left.value],
                 [Began("backup", TRUE) EXCEPT
                      !.snapshot = messages_of(heap, session.conversation_history)])

RestoreHistory ==
    /\ Constructed
    /\ caller.backup # NoList
    /\ Leave(Session_restore_history(session, heap, caller.backup), Holding,
             Began("restore", last.clean))

ClearHistory ==
    /\ Constructed
    /\ Leave(Session_clear_history(session, heap), Holding, Began("clear", FALSE))

\* reset_session with the id uuid4 gives
ResetSession(id) ==
    /\ Constructed
    /\ \E left \in {Session_reset_session(session, heap, id)} :
           Leave(left, [Holding EXCEPT !.new_id = left.value], Began("reset", FALSE))

GetSessionInfo ==
    /\ Constructed
    /\ \E left \in {Session_get_session_info(session, heap)} :
           Leave(left, [Holding EXCEPT !.info = left.value], Began("info", last.clean))

\* the caller appends a message to the list get_conversation_history gave it
ReturnedAppend ==
    /\ Constructed
    /\ caller.returned # NoList
    /\ free_dicts(heap) > 0
    /\ Leave(Left(session, list_append(heap, caller.returned, user_message(WrittenText)), None),
             Holding, Began("returned.append", last.clean))

\* the caller removes the last entry of that list
ReturnedPop ==
    /\ Constructed
    /\ caller.returned # NoList
    /\ heap.lists[caller.returned] # <<>>
    /\ Leave(Left(session,
                  [heap EXCEPT !.lists[caller.returned] = SubSeq(@, 1, Len(@) - 1)], None),
             Holding, Began("returned.pop", last.clean))

\* the caller writes the content field of the i-th message of that list
ReturnedSetContent(i) ==
    /\ Constructed
    /\ caller.returned # NoList
    /\ i \in DOMAIN heap.lists[caller.returned]
    /\ heap.dicts[heap.lists[caller.returned][i]].content # WrittenText
    /\ Leave(Left(session,
                  [heap EXCEPT !.dicts[heap.lists[caller.returned][i]].content = WrittenText],
                  None),
             Holding, Began("returned[i][content]", FALSE))

-----------------------------------------------------------------------------
(* A second task calling Chatbot.send_message on the same object.  Tasks of *)
(* one event loop change hands at an await only: the second task steps      *)
(* while the first is suspended in a gateway call or has no call in         *)
(* progress, and each of its steps runs to its next await.                  *)

\* the first task is not in the middle of a step
Suspended == Idle \/ request # NoRequest

\* first replies of a pass of either task: a text, or one tool request
ConcurrentReplies ==
    { [content |-> <<"o","k">>, tool_calls |-> <<>>],
      [content |-> None,
       tool_calls |-> <<[id |-> "call_1", name |-> "read_file",
                         arguments |-> <<"{", "file_path", ":", "a", "}">>]>>] }

NoException == [type |-> "none", msg |-> <<>>]

RECURSIVE handle_tool_calls(_, _, _, _, _)
\* the loop of Chatbot._handle_tool_calls from request i on: the registry,
\* the file system and tool_results when it ends, or the exception that
\* ended it
handle_tool_calls(self, d, tool_calls, i, tool_results) ==
    IF i > Len(tool_calls)
    THEN [raised |-> FALSE, exc |-> NoException, file_tools |-> self, disk |-> d,
          tool_results |-> tool_results]
    ELSE LET outcome == execute_tool(self, d, tool_calls[i])
             moved == [self EXCEPT !.current_dir = outcome.current_dir]
         IN  IF outcome.raised
             THEN [raised |-> TRUE, exc |-> outcome.exc, file_tools |-> moved,
                   disk |-> outcome.disk, tool_results |-> tool_results]
             ELSE handle_tool_calls(moved, outcome.disk, tool_calls, i + 1,
                                    Append(tool_results,
                                           tool_message(tool_calls[i], outcome.result)))

\* the second task's send_message returns
OtherReturns(value) ==
    other' = [other EXCEPT !.pc = "done", !.request = NoRequest, !.reply = Returned(value)]

\* send_message of the second task up to its first await
OtherSendMessage(message) ==
    /\ other.pc = "none"
    /\ Suspended
    /\ conversation_history' = Append(conversation_history, user_message(message))
    /\ other' = [other EXCEPT
                    !.pc = "create",
                    !.request = Request("create", conversation_history', TRUE, "0.7",
                                        session_id),
                    !.turns = <<user_message(message)>>]
    /\ UNCHANGED <<session_id, temp_history, request, med, run, send_reply, goal_state,
                   goal_result, file_tools, disk, obs, session_vars, cli>>

\* the first reply to the second task arrives: the assistant turn, then the
\* whole loop over tool_calls and the follow-up request, or the return
OtherCreateReturn(content, tool_calls) ==
    /\ other.pc = "create"
    /\ Suspended
    /\ UNCHANGED <<session_id, temp_history, request, med, run, send_reply, goal_state,
                   goal_result, obs, session_vars, cli>>
    /\ \E assistant \in {chatbot_assistant_message(content, tool_calls)} :
       \E ended \in {handle_tool_calls(file_tools, disk, tool_calls, 1, <<>>)} :
           /\ file_tools' = ended.file_tools
           /\ disk' = ended.disk
           /\ IF tool_calls = <<>>
              THEN /\ conversation_history' = Append(conversation_history, assistant)
                   /\ other' = [other EXCEPT !.pc = "done", !.request = NoRequest,
                                             !.turns = Append(@, assistant),
                                             !.reply = Returned(content)]
              ELSE IF ended.raised
              THEN /\ conversation_history' = Append(conversation_history, assistant)
                   /\ other' = [other EXCEPT !.pc = "done", !.request = NoRequest,
                                             !.turns = Append(@, assistant),
                                             !.reply = Returned(error_reply(ended.exc))]
              ELSE /\ conversation_history' =
                          Append(conversation_history, assistant) \o ended.tool_results
                   /\ other' = [other EXCEPT
                                   !.pc = "follow_up",
                                   !.request = Request("follow_up", conversation_history',
                                                       FALSE, "0.7", session_id),
                                   !.turns = Append(@, assistant) \o ended.tool_results]

\* the follow-up reply to the second task arrives
OtherFollowUpReturn(content) ==
    /\ other.pc = "follow_up"
    /\ Suspended
    /\ conversation_history' = Append(conversation_history, final_assistant_message(content))
    /\ other' = [other EXCEPT !.pc = "done", !.request = NoRequest,
                              !.turns = Append(@, final_assistant_message(content)),
                              !.reply = Returned(content)]
    /\ UNCHANGED <<session_id, temp_history, request, med, run, send_reply, goal_state,
                   goal_result, file_tools, disk, obs, session_vars, cli>>

\* a gateway request of the second task fails: `except Exception` of
\* send_message gives the error text
OtherGatewayFail(failure) ==
    /\ other.pc \in {"create", "follow_up"}
    /\ Suspended
    /\ OtherReturns(error_reply(failure))
    /\ UNCHANGED <<chatbot_vars, session_vars, cli>>

-----------------------------------------------------------------------------
(* Specifications *)

\* the messages of PLANNING and DECIDING replies: the model may put tool
\* requests beside any content; the goal loops read message.content only
ReplyMessages(contents) ==
    {[content |-> c, tool_calls |-> tcs] :
        c \in contents,
        tcs \in {<<>>, <<[id |-> "call_1", name |-> "write_file",
                          arguments |-> <<"{", "file_path", ":", "n", ",",
                                          "content", ":", "c", "}">>]>>}}

GoalStep ==
    \/ \E message \in ReplyMessages(PlanReplies) :
         \E k \in (IF run.impl = "chatbot" THEN {chatbot_max_actions} ELSE ConfigMaxActions) :
           PlanReturn(message.content, k)
    \/ \E message \in ReplyMessages(DecideReplies) : DecideReturn(message.content)

PassStep ==
    \/ \E reply \in CreateReplies : CreateReturn(reply.content, reply.tool_calls)
    \/ ExecuteTool
    \/ IssueFollowUp
    \/ \E content \in ReplyContents : FollowUpReturn(content)

Command ==
    \/ \E message \in UserTexts : send_message(message) /\ UNCHANGED cli
    \/ clear_history /\ UNCHANGED cli
    \/ reset_session /\ UNCHANGED cli
    \/ \E goal \in GoalTexts : run_goal(goal) /\ UNCHANGED cli
    \/ \E goal \in GoalTexts : execute_goal(goal) /\ UNCHANGED cli

Fail == \E failure \in GatewayFailures : GatewayFail(failure)

\* every step in which each gateway call and tool execution returns or fails
NextReturning == Command \/ GoalStep \/ PassStep \/ Fail

Next == NextReturning \/ Interrupt

Spec == Init /\ [][Next]_vars

\* interactive sends whose replies ask for registry operations
ToolNext ==
    \/ \E message \in UserTexts : send_message(message) /\ UNCHANGED cli
    \/ clear_history /\ UNCHANGED cli
    \/ \E content \in ReplyContents : CreateReturn(content, <<>>)
    \/ \E tool_calls \in RegistryCallLists : CreateReturn(None, tool_calls)
    \/ ExecuteTool
    \/ IssueFollowUp
    \/ \E content \in ReplyContents : FollowUpReturn(content)

ToolSpec == Init /\ [][ToolNext]_vars

\* a gateway call in flight or a tool loop in progress is eventually served
FairSpec == Init /\ [][NextReturning]_vars /\ WF_vars(GoalStep \/ PassStep \/ Fail)


\* what a caller does with a Session
SessionStep ==
    \/ \E content \in SessionTexts : AddUserMessage(content)
    \/ \E turn \in AssistantTurns : AddAssistantMessage(turn.content, turn.tool_calls)
    \/ \E content \in SessionTexts : AddSystemMessage(content)
    \/ \E n \in 1..MaxToolCalls : AddToolResults(n)
    \/ GetConversationHistory
    \/ BackupHistory
    \/ RestoreHistory
    \/ ClearHistory
    \/ \E id \in SessionIds \ {session.session_id} : ResetSession(id)
    \/ GetSessionInfo
    \/ ReturnedAppend
    \/ ReturnedPop
    \/ \E i \in Addrs : ReturnedSetContent(i)

\* the command loop's session commands and interactive sends
ChatbotSessionStep ==
    /\ ~Constructed
    /\ \/ \E message \in UserTexts : send_message(message) /\ UNCHANGED cli
       \/ clear_history /\ UNCHANGED cli
       \/ reset_session /\ UNCHANGED cli
       \/ get_session_info /\ UNCHANGED cli
       \/ PassStep

\* the steps of the second task
OtherStep ==
    \/ \E message \in UserTexts : OtherSendMessage(message)
    \/ \E reply \in ConcurrentReplies : OtherCreateReturn(reply.content, reply.tool_calls)
    \/ \E content \in ReplyContents : OtherFollowUpReturn(content)
    \/ \E failure \in GatewayFailures : OtherGatewayFail(failure)

\* the command loop's sends and goal runs with a second task sending
ConcurrentNext ==
    \/ \E message \in UserTexts : send_message(message) /\ UNCHANGED cli
    \/ \E goal \in GoalTexts : run_goal(goal) /\ UNCHANGED cli
    \/ GoalStep
    \/ \E reply \in ConcurrentReplies : CreateReturn(reply.content, reply.tool_calls)
    \/ ExecuteTool
    \/ IssueFollowUp
    \/ \E content \in ReplyContents : FollowUpReturn(content)
    \/ Fail
    \/ OtherStep

ConcurrentSpec == Init /\ [][ConcurrentNext]_vars

\* the command loop against a gateway that is down: lines are read and
\* dispatched, and the gateway call of a chat message or of a goal fails
CliNext ==
    \/ \E line \in InputLines : CLI_run(line)
    \/ Fail

CliSpec == Init /\ [][CliNext]_vars

\* a program that constructed a Session
SessionInit ==
    /\ ChatbotInit
    /\ \E made \in {Session_init(EmptyHeap, "uuid-1")} :
           /\ session = made.self
           /\ heap = made.heap
    /\ caller = NoCaller
    /\ last = NoLast

\* either program: the command loop with its Chatbot, or a caller with its
\* Session
SessionSpec == (Init \/ SessionInit) /\ [][ChatbotSessionStep \/ SessionStep]_vars

\* either program in full: the command loop with sends, goal runs and
\* interrupts, or a caller with its Session
BothSpec == (Init \/ SessionInit) /\ [][(~Constructed /\ Next) \/ SessionStep]_vars

-----------------------------------------------------------------------------
(* Properties *)

\* C1: when a goal run has ended (COMPLETE, BUDGET_EXHAUSTED, FAILED, or an
\* exception that left run_goal), the interactive log is exactly the log
\* held when the run was invoked.
C1_Isolation == goal_state \in Ended => conversation_history = obs.H

\* a Chatbot run over a non-empty log that began an ACTING step and ended
C1_Witness ==
    /\ goal_state \in {"FAILED", "PROPAGATED"}
    /\ run.impl = "chatbot"
    /\ obs.H # <<>>
    /\ obs.acting > 0

\* C2: a run with ceiling K begins at most K ACTING steps; once K steps are
\* done without a completion signal the run is in BUDGET_EXHAUSTED and has
\* returned 'Goal execution reached maximum actions (K)'.
C2_ActionBudget ==
    /\ obs.planned => obs.acting <= run.max_actions
    /\ (/\ obs.planned
        /\ obs.acting = run.max_actions
        /\ goal_state \notin {"ACTING", "FAILED", "PROPAGATED"})
       => /\ goal_state = "BUDGET_EXHAUSTED"
          /\ goal_result = Returned(<<"Goal execution reached maximum actions (",
                                      ToString(run.max_actions), ")">>)
    /\ goal_state = "BUDGET_EXHAUSTED" => obs.acting = run.max_actions

\* a run that used up a ceiling of two or more actions
C2_Witness ==
    /\ goal_state = "BUDGET_EXHAUSTED"
    /\ run.max_actions >= 2
    /\ obs.acting = run.max_actions

\* two characters equal up to case
same_letter(a, b) ==
    \/ a = b
    \/ \E i \in 1..Len(lower_letters) : {a, b} = {lower_letters[i], upper_letters[i]}

\* `word` occurs in `text`, case-insensitively
occurs_in(word, text) ==
    \E i \in 0..(Len(text) - Len(word)) :
        \A j \in 1..Len(word) : same_letter(text[i + j], word[j])

\* the completion signal of the specification
Signal(text) ==
    /\ text # None
    /\ occurs_in(GOAL_COMPLETE, text) \/ occurs_in(FINISHED, text)

\* C3: a run is in COMPLETE exactly when its last DECIDING reply holds
\* GOAL_COMPLETE or FINISHED in any case; it then returned that reply
\* verbatim and began no ACTING step for it.
C3_CompletionSignal ==
    /\ goal_state = "COMPLETE"
       => /\ obs.deciding > 0
          /\ Signal(obs.decision)
          /\ goal_result = Returned(obs.decision)
          /\ obs.acting = obs.deciding - 1
          /\ request = NoRequest
    /\ (obs.deciding > 0 /\ Signal(obs.decision)) => goal_state = "COMPLETE"

\* a run completed by a reply that holds the signal in lower case inside
\* another word, with budget left
C3_Witness ==
    /\ goal_state = "COMPLETE"
    /\ obs.decision = <<"u","n","f","i","n","i","s","h","e","d">>
    /\ run.action_count < run.max_actions

\* the message at place p of conv is an assistant turn with tool requests
RequestsTools(conv, p) ==
    /\ conv[p].role = "assistant"
    /\ "tool_calls" \in DOMAIN conv[p]
    /\ conv[p].tool_calls # <<>>

\* the last assistant turn of conv with tool requests carries tool_calls and
\* is followed by one tool turn per request, the i-th with the id of the
\* i-th request
ResultsFollow(conv, tool_calls) ==
    \E p \in 1..Len(conv) :
        /\ RequestsTools(conv, p)
        /\ \A k \in (p + 1)..Len(conv) : ~RequestsTools(conv, k)
        /\ conv[p].tool_calls = tool_calls
        /\ p + Len(tool_calls) <= Len(conv)
        /\ \A i \in 1..Len(tool_calls) :
             /\ conv[p + i].role = "tool"
             /\ conv[p + i].tool_call_id = tool_calls[i].id

\* the follow-up request carries the N tool turns right after the assistant
\* turn, and nothing after them
FollowUpCarriesResults ==
    med.pc = "follow_up"
    => /\ request.purpose = "follow_up"
       /\ request.messages = (IF InExecutor THEN temp_history ELSE conversation_history)
       /\ ResultsFollow(request.messages, med.tool_calls)
       /\ RequestsTools(request.messages, Len(request.messages) - Len(med.tool_calls))

\* C4: for every assistant turn with N tool requests the mediator appends N
\* tool turns, the i-th with the i-th request's id, all of them before the
\* follow-up call is issued: the follow-up request carries them, and when a
\* pass of send_message over a turn with tool requests is over (and the
\* process was not interrupted) they are in the conversation.
C4_ToolCallMediation ==
    /\ FollowUpCarriesResults
    /\ (/\ obs.requested # <<>>
        /\ med.pc = "none"
        /\ goal_state \in {"IDLE", "DECIDING"}
        /\ send_reply.kind # "raise")
       => ResultsFollow(conversation_history, obs.requested)

\* every tool turn of conv answers a request of the nearest assistant turn
\* before it, with only tool turns in between
NoOrphans(conv) ==
    \A q \in 1..Len(conv) :
        conv[q].role = "tool"
        => \E p \in 1..(q - 1) :
             /\ RequestsTools(conv, p)
             /\ \A k \in (p + 1)..(q - 1) : conv[k].role = "tool"
             /\ \E i \in 1..Len(conv[p].tool_calls) :
                  conv[p].tool_calls[i].id = conv[q].tool_call_id

\* C5: in every conversation (the interactive log, the log of a goal run,
\* the saved log, the temporary session, the messages of a request) each
\* tool turn carries the id of a tool call of the nearest preceding
\* assistant turn, with only tool turns between them.
C5_NoOrphanedResults ==
    /\ NoOrphans(conversation_history)
    /\ NoOrphans(temp_history)
    /\ NoOrphans(run.original_history)
    /\ NoOrphans(request.messages)

\* an interactive send that failed in its follow-up call, with the tool
\* turn in the log
C5_Witness ==
    /\ Idle
    /\ goal_state = "IDLE"
    /\ obs.failure = "APIConnectionError"
    /\ \E q \in 1..Len(conversation_history) : conversation_history[q].role = "tool"

\* C6: a failure during PLANNING, DECIDING or ACTING puts the run in FAILED
\* with the result 'Goal execution failed: <error description>'; the run
\* takes no further step.
C6_FailureEndsRun ==
    (goal_state # "IDLE" /\ obs.failure # "none")
    => /\ goal_state = "FAILED"
       /\ goal_result = Returned(<<"Goal execution failed: ">> \o obs.failure_msg)

\* C7: a run that ended in COMPLETE, BUDGET_EXHAUSTED or FAILED returned a
\* text; no reply and no gateway or tool failure makes run_goal /
\* execute_goal raise (only an interrupt of the process leaves them as an
\* exception).
C7_AlwaysText ==
    /\ goal_state \in {"COMPLETE", "BUDGET_EXHAUSTED", "FAILED"}
       => /\ goal_result.kind = "return"
          /\ goal_result.value # None
          /\ goal_result.value # <<>>
    /\ goal_state \in Running => goal_result = NoResult
    /\ goal_state = "PROPAGATED"
       => /\ goal_result.kind = "raise"
          /\ goal_result.exc = "KeyboardInterrupt"

\* a run whose DECIDING reply had no content, after an action was done
C7_Witness ==
    /\ goal_state = "FAILED"
    /\ obs.decision = None
    /\ run.completed_actions # <<>>

\* C8: an interactive send in which the first gateway call, a tool
\* execution or the follow-up call failed returned 'Error: <description>';
\* send_message raises for no such failure.
C8_SendNeverPropagates ==
    /\ (Idle /\ goal_state = "IDLE" /\ obs.failure # "none")
       => send_reply = Returned(<<"Error: ">> \o obs.failure_msg)
    /\ send_reply.kind = "raise"
       => send_reply.exc = "KeyboardInterrupt" /\ obs.failure = "none"

\* an interactive send whose tool execution raised
C8_Witness ==
    /\ Idle
    /\ goal_state = "IDLE"
    /\ obs.failure = "JSONDecodeError"
    /\ send_reply.kind = "return"

\* C9: when every gateway call and tool execution returns or fails, a goal
\* run that has begun reaches COMPLETE, BUDGET_EXHAUSTED or FAILED.
C9_GoalRunTerminates ==
    (goal_state \in Running)
        ~> (/\ goal_state \in {"COMPLETE", "BUDGET_EXHAUSTED", "FAILED"}
            /\ goal_result.kind = "return")

\* a run that went through every action of its budget and then ended
C9_Witness ==
    /\ goal_state \in {"COMPLETE", "BUDGET_EXHAUSTED", "FAILED"}
    /\ obs.planned
    /\ run.action_count = MaxActions
    /\ goal_result.kind = "return"

\* C10: when a run is COMPLETE after its i-th DECIDING reply, i - 1 actions
\* are recorded and action_count is i - 1.
C10_CompletionIsACheck ==
    goal_state = "COMPLETE"
    => /\ Len(run.completed_actions) = obs.deciding - 1
       /\ run.action_count = obs.deciding - 1
       /\ obs.deciding <= run.max_actions

\* a run completed by its second DECIDING reply or a later one
C10_Witness ==
    /\ goal_state = "COMPLETE"
    /\ obs.deciding >= 2
    /\ Len(run.completed_actions) = obs.deciding - 1

\* C11: the first gateway request of every ACTING step carries exactly two
\* messages, the system instruction and the user message with the action
\* text, whatever earlier ACTING steps and the interactive log held.
C11_FreshConversation ==
    (goal_state = "ACTING" /\ med.pc = "create")
    => /\ request.purpose = "create"
       /\ request.messages =
              <<execute_system_message, user_message(execute_prompt(run.next_action))>>

\* an ACTING step has just been recorded: the loop is back at its head
StepRecorded ==
    /\ goal_state \in {"DECIDING", "BUDGET_EXHAUSTED"}
    /\ obs.acting > 0
    /\ Len(run.completed_actions) = obs.acting

LastCompleted == run.completed_actions[Len(run.completed_actions)]

\* C12 as stated: the result recorded for an ACTING step that ended with a
\* model reply is the reply's text, or 'Action completed' when it has none,
\* with or without tools; the action description is recorded with it.
C12_ResultFallback ==
    (StepRecorded /\ obs.final # NoFinal)
    => LastCompleted = [action |-> obs.decision,
                        result |-> IF obs.final = None \/ obs.final = <<>>
                                   THEN <<"Action completed">> ELSE obs.final]

\* C12, amended: the record holds the action description and the reply's
\* text; for a reply without text GoalExecutor records 'Action completed'
\* after a step without tools and 'Action completed with tools' after a
\* step with tools, and Chatbot.run_goal records the reply as it is; for a
\* step that failed Chatbot.run_goal records 'Error: <description>'.
C12_ResultRecorded ==
    StepRecorded
    => /\ LastCompleted.action = obs.decision
       /\ LastCompleted.result =
              IF obs.final = NoFinal
              THEN <<"Error: ">> \o obs.failure_msg
              ELSE IF run.impl = "chatbot" THEN obs.final
              ELSE IF obs.final # None /\ obs.final # <<>> THEN obs.final
              ELSE IF obs.calls # <<>> THEN <<"Action completed with tools">>
              ELSE <<"Action completed">>
       /\ obs.final = NoFinal => run.impl = "chatbot"

\* a GoalExecutor step with tools whose follow-up reply had no text
C12_Witness ==
    /\ StepRecorded
    /\ run.impl = "executor"
    /\ obs.calls # <<>>
    /\ obs.final = None
    /\ LastCompleted.result = <<"Action completed with tools">>

\* an interactive send has returned the text of a model reply
SendReturned ==
    /\ Idle
    /\ goal_state = "IDLE"
    /\ send_reply.kind = "return"
    /\ obs.final # NoFinal

\* C13: an interactive send whose first reply carried N >= 1 tool calls and
\* whose follow-up succeeded has extended the log by N + 3 entries: user,
\* assistant with the tool calls, N tool turns in request order, assistant;
\* it returned the follow-up's text.  A send whose reply carried no tool
\* calls has extended it by user and assistant.
C13_SendWithTools ==
    SendReturned
    => LET b == Len(obs.before)
           N == Len(obs.calls)
           h == conversation_history
       IN  /\ send_reply.value = obs.final
           /\ Len(h) = b + (IF N >= 1 THEN N + 3 ELSE 2)
           /\ SubSeq(h, 1, b) = obs.before
           /\ h[b + 1].role = "user"
           /\ h[b + 2].role = "assistant"
           /\ h[Len(h)].role = "assistant"
           /\ h[Len(h)].content = obs.final
           /\ N >= 1 => /\ h[b + 2].tool_calls = obs.calls
                        /\ \A i \in 1..N :
                             /\ h[b + 2 + i].role = "tool"
                             /\ h[b + 2 + i].tool_call_id = obs.calls[i].id

\* a send with two tool calls that returned the follow-up's text
C13_Witness ==
    /\ SendReturned
    /\ Len(obs.calls) = 2
    /\ Len(conversation_history) = Len(obs.before) + 5
    /\ send_reply.value = <<"o", "k">>

\* a pass over a reply with tool requests is over and the process was not
\* interrupted
PassOver ==
    /\ obs.calls # <<>>
    /\ med.pc = "none"
    /\ send_reply.kind # "raise"
    /\ goal_state # "PROPAGATED"

\* C14: a pass issues exactly one follow-up request, after every tool
\* result is appended; the request advertises no tools; no tool is executed
\* after it.
C14_OneRoundOfTools ==
    /\ obs.follow_ups <= 1
    /\ obs.follow_ups = 1 => Len(obs.executed) = Len(obs.calls)
    /\ med.pc = "follow_up"
       => /\ obs.follow_ups = 1
          /\ request.purpose = "follow_up"
          /\ ~request.tools
          /\ ResultsFollow(request.messages, obs.calls)
    /\ PassOver => obs.follow_ups = 1

\* the i-th tool execution of the pass gave a failure result
FailedAt(i) ==
    /\ ~obs.executed[i].outcome.raised
    /\ ~obs.executed[i].outcome.result.success

\* C15: when the i-th tool call of a pass gives a failure result, the calls
\* after it are still executed in request order, the failure is the content
\* of the i-th tool turn, and the follow-up request is issued.
C15_FailureDoesNotAbort ==
    /\ \A j \in 1..Len(obs.executed) :
         /\ j <= Len(obs.calls)
         /\ obs.executed[j].call = obs.calls[j]
    /\ \A i \in 1..Len(obs.executed) :
         (FailedAt(i) /\ PassOver)
         => /\ Len(obs.executed) = Len(obs.calls)
            /\ obs.follow_ups = 1
            /\ goal_state = "IDLE"
               => LET turn == conversation_history[Len(obs.before) + 2 + i]
                  IN  /\ turn.role = "tool"
                      /\ turn.content = json_dumps(obs.executed[i].outcome.result)

\* the arguments of a request lack the path its function requires
LacksPath(call) ==
    /\ call.name \in KnownFunctions \ {"list_directory", "get_current_directory"}
    /\ json_loads_ok(call.arguments)
    /\ json_get(call.arguments, "file_path", None) = None
    /\ json_get(call.arguments, "directory_path", None) = None

\* C16: no tool execution raises, whatever the function name and the
\* arguments text; a request with malformed arguments or without a required
\* argument is answered by a failure result.
C16_FailuresAreValues ==
    \A i \in 1..Len(obs.executed) :
        LET e == obs.executed[i]
        IN  /\ ~e.outcome.raised
            /\ (~json_loads_ok(e.call.arguments) \/ LacksPath(e.call))
               => ~e.outcome.result.success

\* C17: a request for a function outside the seven known ones is answered
\* by the failure result 'Unknown function: <name>'; the execution raises
\* nothing, acts on no location, and leaves the file system and the
\* object's current_dir as they were.
C17_UnknownOperations ==
    \A i \in 1..Len(obs.executed) :
        LET e == obs.executed[i]
        IN  e.call.name \notin KnownFunctions
            => /\ ~e.outcome.raised
               /\ e.outcome.result = Failure(<<"Unknown function: ", e.call.name>>)
               /\ e.outcome.target = NoTarget
               /\ e.outcome.disk = e.disk
               /\ e.outcome.current_dir = e.dir

\* the configured root: the directory the registry is constructed with
Root == ProcessCwd

\* location q is at or under directory r
IsUnder(q, r) == Len(r) <= Len(q) /\ SubSeq(q, 1, Len(r)) = r

PathOperations ==
    {"read_file", "write_file", "list_directory", "change_directory",
     "create_directory", "get_file_info"}

\* the path argument of a request (None when it has none)
PathArgument(call) ==
    IF call.name \in {"read_file", "write_file", "get_file_info"}
    THEN json_get(call.arguments, "file_path", None)
    ELSE json_get(call.arguments, "directory_path", None)

AccessDenied(result) ==
    /\ ~result.success
    /\ result.error \in
         {<<"Access denied: File path is outside current directory">>,
          <<"Access denied: Directory path is outside current directory">>,
          <<"Access denied: Directory path is outside allowed scope">>}

\* the execution was given a path that names a location outside the root
OutsideRoot(e) ==
    /\ e.call.name \in PathOperations
    /\ json_loads_ok(e.call.arguments)
    /\ PathArgument(e.call) # None
    /\ ~IsUnder(join(e.dir, Path(PathArgument(e.call))), Root)

\* C18: an operation given a path that normalizes to a location outside the
\* root returns an access-denied failure, creates or changes no file or
\* directory, and leaves the working directory as it was.
C18_PathSafety ==
    \A i \in 1..Len(obs.executed) :
        LET e == obs.executed[i]
        IN  OutsideRoot(e)
            => /\ AccessDenied(e.outcome.result)
               /\ e.outcome.disk = e.disk
               /\ e.outcome.current_dir = e.dir

\* path texts to put to the validation: relative, absolute, under the root,
\* beside it, above it
ProbePaths ==
    { <<"a">>, <<"s", "/", "a">>, <<"/", "w", "/", "a">>, <<"/", "w", "/", "s">>,
      <<"/", "w", "2", "/", "x">>, <<".", ".", "/", "x">>, <<"/", "x">> }

\* the path texts the object accepts
Allowed(self) == {p \in ProbePaths : is_safe_path(self, p)}

\* C19: after any sequence of tool calls the paths accepted and the paths
\* denied are those accepted and denied at construction, and the working
\* directory is at or under the root.
C19_RootIsFixed ==
    /\ Allowed(file_tools) = Allowed([current_dir |-> Root])
    /\ IsUnder(file_tools.current_dir, Root)

\* the j-th execution follows a successful change_directory of the same
\* pass, with no other successful one in between
AfterChange(i, j) ==
    /\ i < j
    /\ obs.executed[i].call.name = "change_directory"
    /\ ~obs.executed[i].outcome.raised
    /\ obs.executed[i].outcome.result.success
    /\ \A k \in (i + 1)..(j - 1) :
         ~(/\ obs.executed[k].call.name = "change_directory"
           /\ obs.executed[k].outcome.result.success)

\* the request names a relative path
RelativePath(call) ==
    /\ call.name \in PathOperations
    /\ json_loads_ok(call.arguments)
    /\ PathArgument(call) # None
    /\ ~Path(PathArgument(call)).absolute

\* C20: the tool calls of a pass are executed one after another in request
\* order, each on what the one before left; after a successful
\* change_directory(d) every later call of the pass runs with working
\* directory d: a relative path that stays under d names the location
\* under d, and the call acts on that location.
C20_SequentialExecution ==
    /\ \A j \in 1..Len(obs.executed) :
         /\ j <= Len(obs.calls)
         /\ obs.executed[j].call = obs.calls[j]
         /\ j > 1 => /\ obs.executed[j].dir = obs.executed[j - 1].outcome.current_dir
                     /\ obs.executed[j].disk = obs.executed[j - 1].outcome.disk
    /\ \A i, j \in 1..Len(obs.executed) :
         AfterChange(i, j)
         => LET d == obs.executed[i].outcome.current_dir
                e == obs.executed[j]
            IN  /\ e.dir = d
                /\ (/\ RelativePath(e.call)
                    /\ IsUnder(join(d, Path(PathArgument(e.call))), d))
                   => e.outcome.target = join(d, Path(PathArgument(e.call)))

\* the info dict of an empty session with the given id
EmptyInfo(id) == [session_id |-> id, message_count |-> 0, tool_calls_count |-> 0]

\* C22: right after a reset, of a Session or of the Chatbot, the session id
\* differs from the one before, the history is empty, the id returned is
\* the new id, and info reports that id with message_count 0 and tool call
\* count 0.
C22_Reset ==
    last.op = "reset" =>
        IF Constructed
        THEN /\ session.session_id # last.prior_id
             /\ messages_of(heap, session.conversation_history) = <<>>
             /\ caller.new_id = session.session_id
             /\ Session_get_session_info(session, heap).value = EmptyInfo(caller.new_id)
        ELSE /\ session_id # last.prior_id
             /\ conversation_history = <<>>
             /\ caller.new_id = session_id
             /\ chatbot_session_info(session_id, conversation_history)
                    = EmptyInfo(caller.new_id)

\* a Session that held messages, a backup and a list given to the caller
\* was reset
C22_Witness ==
    /\ last.op = "reset"
    /\ Constructed
    /\ last.held = MaxObjects
    /\ caller.backup # NoList


\* the messages of the Session's log, field by field
SessionMessages == messages_of(heap, session.conversation_history)

\* the messages of the backup the caller holds, field by field
BackupMessages == messages_of(heap, caller.backup)

\* C23: a restore from a backup, with no message added, removed or written
\* since the backup was taken, leaves the history equal to the history at
\* the time of the backup.
C23_RoundTrip ==
    (Constructed /\ last.op = "restore" /\ last.clean) => SessionMessages = last.snapshot

\* a backup of MaxObjects messages was restored with nothing changed in between
C23_Witness ==
    /\ Constructed
    /\ last.op = "restore"
    /\ last.clean
    /\ Len(last.snapshot) = MaxObjects

\* C24: a restore replaces the history by the backup's contents, and a
\* backup held by the caller keeps the contents it had when it was taken,
\* whatever is done to the history or to a message of it afterwards.
C24_RestoreReplaces ==
    Constructed =>
        /\ last.op = "restore" => SessionMessages = BackupMessages
        /\ caller.backup # NoList => BackupMessages = last.snapshot

\* the operations of the caller on the list get_conversation_history returned
CallerOps == {"returned.append", "returned.pop", "returned[i][content]"}

\* C25: no change the caller makes to the list get_conversation_history
\* returned, or to a message of it, changes the Session's history.
C25_HistoryIsACopy ==
    [][(Constructed /\ last'.op \in CallerOps)
        => messages_of(heap', session'.conversation_history) = SessionMessages]_vars

\* C26: right after a clear, of a Session or of the Chatbot, the history is
\* empty and the session id is the one before the clear.
C26_Clear ==
    last.op = "clear" =>
        IF Constructed
        THEN SessionMessages = <<>> /\ session.session_id = last.prior_id
        ELSE conversation_history = <<>> /\ session_id = last.prior_id

\* a Session holding MaxObjects messages was cleared
C26_Witness ==
    /\ last.op = "clear"
    /\ Constructed
    /\ last.held = MaxObjects

\* the number of turns of a history whose role is one of the given roles
TurnsWithRole(messages, roles) ==
    Cardinality({i \in DOMAIN messages : messages[i].role \in roles})

\* C29: the info of a Session or of the Chatbot reports as message_count
\* the number of user and assistant turns of the history, and as tool call
\* count the number of tool turns.
C29_InfoCounts ==
    last.op = "info" =>
        LET messages == IF Constructed THEN SessionMessages ELSE conversation_history
        IN  /\ caller.info.message_count = TurnsWithRole(messages, {"user", "assistant"})
            /\ caller.info.tool_calls_count = TurnsWithRole(messages, {"tool"})
            /\ caller.info.session_id = IF Constructed THEN session.session_id ELSE session_id

\* info was taken of a Session whose history holds a system turn and a tool turn
C29_Witness ==
    /\ last.op = "info"
    /\ Constructed
    /\ \E i, j \in DOMAIN SessionMessages :
            SessionMessages[i].role = "system" /\ SessionMessages[j].role = "tool"

\* the text OpenAIClient puts before the cause of a failed request
FailurePrefix(purpose) ==
    IF purpose = "follow_up" THEN "Follow-up API request failed: " ELSE "API request failed: "

C28_PlanningOnce ==
    /\ request.purpose = "plan" =>
           /\ goal_state = "PLANNING"
           /\ ~obs.planned /\ obs.deciding = 0 /\ obs.acting = 0
           /\ ~request.tools
    /\ goal_state = "PLANNING" => request.purpose = "plan"
    /\ goal_state \in {"DECIDING", "ACTING"} => obs.planned /\ run.plan = obs.plan
    /\ request.purpose = "decide" =>
           /\ goal_state = "DECIDING"
           /\ ~request.tools
           /\ contains(str(obs.plan), request.messages[2].content)

\* a DECIDING request after a finished action, in a run whose plan is a text
C28_Witness ==
    /\ request.purpose = "decide"
    /\ obs.deciding >= 1
    /\ obs.acting >= 1
    /\ obs.plan \in PlanReplies \ {None}

\* a result as the summary of completed actions is to show it
Shown(result) ==
    IF Len(str(result)) > 100
    THEN SubSeq(str(result), 1, 100) \o <<"...">>
    ELSE str(result)

\* C30: the i-th DECIDING request of a goal run carries the goal, the plan
\* and, for each of the i-1 actions completed before it, in order, the
\* action and its result, a result of more than 100 characters cut to its
\* first 100 followed by '...'.
C30_DecidingSeesCompletedWork ==
    request.purpose = "decide" =>
        LET content == request.messages[2].content
            done == run.completed_actions
        IN  /\ contains(run.goal, content)
            /\ contains(str(run.plan), content)
            /\ Len(done) = obs.deciding
            /\ \A j \in DOMAIN done :
                   /\ contains(<<ToString(j), ". ">> \o done[j].action, content)
                   /\ contains(Shown(done[j].result), content)
            /\ ~contains(<<ToString(Len(done) + 1), ". ">>, content)

\* the turns of `turns` stand side by side, in order, in `history`
Contiguous(turns, history) ==
    \E i \in 0..(Len(history) - Len(turns)) :
        SubSeq(history, i + 1, i + Len(turns)) = turns

\* C21: with a send of a second task and a send or goal run of the first
\* in progress on one Chatbot, at most one gateway request is in flight at
\* a time, and when both have returned the turns the second task appended
\* are in the log, side by side and in order.
C21_Serialized ==
    /\ ~(request # NoRequest /\ other.request # NoRequest)
    /\ (Idle /\ other.pc = "done") => Contiguous(other.turns, conversation_history)


\* the DECIDING requests the run has issued so far
DecidingRequests == obs.deciding + (IF request.purpose = "decide" THEN 1 ELSE 0)

\* C31: a goal run with ceiling K issues at most K DECIDING requests; once
\* K actions are done the run is in BUDGET_EXHAUSTED with no request in
\* flight and no DECIDING request beyond the K it made, and with K <= 0 it
\* is in BUDGET_EXHAUSTED as soon as the plan arrived, without any DECIDING
\* request.
C31_NoCheckAfterLastAction ==
    obs.planned =>
        /\ DecidingRequests <= run.max_actions
        /\ run.action_count >= run.max_actions =>
               /\ goal_state = "BUDGET_EXHAUSTED"
               /\ request = NoRequest
               /\ DecidingRequests = run.action_count
        /\ goal_state = "BUDGET_EXHAUSTED" => run.action_count = run.max_actions
        /\ run.max_actions <= 0 => goal_state = "BUDGET_EXHAUSTED" /\ DecidingRequests = 0

\* a run whose MaxActions actions were each decided and done
C31_Witness ==
    /\ obs.planned
    /\ run.max_actions = MaxActions
    /\ run.action_count = MaxActions
    /\ obs.deciding = MaxActions


\* every assistant turn of conv with N tool requests is followed at once by
\* exactly N tool turns, the i-th with the id of the i-th request
AllAnswered(conv) ==
    \A p \in 1..Len(conv) :
        RequestsTools(conv, p)
        => LET N == Len(conv[p].tool_calls)
           IN  /\ p + N <= Len(conv)
               /\ \A i \in 1..N :
                    /\ conv[p + i].role = "tool"
                    /\ conv[p + i].tool_call_id = conv[p].tool_calls[i].id
               /\ p + N + 1 <= Len(conv) => conv[p + N + 1].role # "tool"

\* C32: whenever no send is in progress, after sends that succeeded, that
\* failed during tool execution or that failed in the follow-up call, every
\* assistant turn of the interactive history with N tool calls is followed
\* at once by exactly N tool turns, one per request id in request order.
C32_NoDanglingRequests == Idle => AllAnswered(conversation_history)


\* conv is the beginning of longer
IsPrefix(conv, longer) ==
    Len(conv) <= Len(longer) /\ SubSeq(longer, 1, Len(conv)) = conv

\* the step is a clear or a reset of the Chatbot
ClearsOrResets ==
    last'.op \in {"clear", "reset"} /\ conversation_history' = <<>>

\* the step is the end of run_goal putting the saved history back
GoalRestores ==
    /\ goal_state \in Running
    /\ goal_state' \notin Running
    /\ conversation_history' = run.original_history

\* the step is the beginning of run_goal saving the history and emptying it
GoalSetsAside ==
    /\ goal_state' = "PLANNING"
    /\ run'.original_history = conversation_history
    /\ conversation_history' = <<>>

\* C33 as stated: every step leaves the history it found as the beginning
\* of the history it leaves, except clear, reset and the restore at the end
\* of run_goal.
C33_OnlyRestoreReplaces ==
    [][\/ IsPrefix(conversation_history, conversation_history')
       \/ ClearsOrResets
       \/ GoalRestores]_vars

\* C33: every step of send_message and of its tool-call pass, on success
\* and on every failure path, leaves the history it found as the beginning
\* of the history it leaves; the only steps that do otherwise are clear,
\* reset, and run_goal, which saves and empties the history when it begins
\* and puts the saved history back when it ends.
C33_SendAppendOnly ==
    [][\/ IsPrefix(conversation_history, conversation_history')
       \/ ClearsOrResets
       \/ GoalSetsAside
       \/ GoalRestores]_vars

\* a send that failed during tool execution and kept the turns it had added
C33_Witness ==
    /\ Idle
    /\ goal_state = "IDLE"
    /\ obs.failure = "JSONDecodeError"
    /\ send_reply.kind = "return"
    /\ Len(conversation_history) = Len(obs.before) + 2
    /\ IsPrefix(obs.before, conversation_history)


\* the step executed a registry operation or changed what the registry holds
ToolRan ==
    \/ Len(obs'.executed) > Len(obs.executed)
    \/ disk' # disk
    \/ file_tools' # file_tools

\* C34: no step taken in PLANNING or DECIDING, whatever the reply holds,
\* executes a registry operation or changes the registry or the file
\* system; a step that does is a step of a tool-call pass, in ACTING or in
\* an interactive send; the requests of PLANNING and DECIDING advertise no
\* tools and no tool-call pass is open while they are in flight.
C34_ToolsOnlyInActing ==
    [][/\ ToolRan => (goal_state \notin {"PLANNING", "DECIDING"} /\ med.pc = "tools")
       /\ goal_state' \in {"PLANNING", "DECIDING"} =>
              /\ request'.purpose \in {"plan", "decide"}
              /\ ~request'.tools
              /\ med' = NoMed]_vars

\* a tool ran in an ACTING step and the run is deciding again
C34_Witness ==
    /\ goal_state = "DECIDING"
    /\ obs.executed # <<>>
    /\ run.completed_actions # <<>>


\* a line that is the goal verb followed by whitespace only
GoalVerbOnly(line) ==
    /\ Len(line) > Len(goal_word)
    /\ lower(SubSeq(line, 1, Len(goal_word))) = goal_word
    /\ \A i \in (Len(goal_word) + 1)..Len(line) : line[i] \in Whitespace

\* C35: for a line that is the goal verb followed by whitespace only, the
\* command loop prints the usage hint, calls neither run_goal nor the
\* gateway and does not forward the line as a chat message; and run_goal is
\* never called with an empty goal text
C35_GoalVerbWithoutText ==
    /\ GoalVerbOnly(cli.line) =>
           /\ cli.printed = "usage"
           /\ cli.call = "none"
           /\ request = NoRequest
    /\ cli.call = "run_goal" => cli.text # <<>> /\ run.goal # <<>>

\* the half of C35 about run_goal alone
C35_RunGoalHasText ==
    /\ cli.call = "run_goal" => cli.text # <<>> /\ strip(cli.text) = cli.text
    /\ cli.printed # "usage"


\* C36: the session id of the Chatbot and of a Session object changes only
\* in a reset; every other step (send, tool mediation, clear, backup and
\* restore, every step of a goal run) leaves it as it was, and every gateway
\* request carries the id of the Chatbot that issues it, so all requests of
\* one goal run carry the same id
C36_SessionIdStable ==
    [][/\ session_id' # session_id =>
              /\ last'.op = "reset" /\ last'.prior_id = session_id
              /\ goal_state \notin Running /\ goal_state' \notin Running
       /\ session'.session_id # session.session_id =>
              last'.op = "reset" /\ last'.prior_id = session.session_id
       /\ request' # NoRequest => request'.session_id = session_id']_vars

\* the follow-up request of an ACTING step, after a DECIDING request, of a
\* goal run started after a reset
C36_Witness ==
    /\ goal_state = "ACTING"
    /\ request.purpose = "follow_up"
    /\ obs.deciding >= 1
    /\ session_id # "uuid-1"
    /\ request.session_id = session_id

=============================================================================
